---- MODULE Spec2Model ----
(***************************************************************************)
(* Verification model of the data-shaping pipeline (src/eda.py) and of the *)
(* input validation of the chart renderers (src/drawchat.py).              *)
(*                                                                         *)
(* A table (pandas DataFrame) is a record [cols, rows]: cols is the        *)
(* sequence of column names in column order, rows is the sequence of rows, *)
(* each row a function from column name to cell.                           *)
(* Text cells that the code parses (date, volume, pp, margin, nasp) are    *)
(* sequences of one-character strings; the empty sequence is a blank CSV   *)
(* cell, which pandas reads as a missing value.                            *)
(* Numbers are fixed point, in thousandths (1500 is 1.5); rounding to two  *)
(* decimals therefore rounds to a multiple of 10.  A missing number (NaN,  *)
(* NaT) is the sentinel NaN.                                               *)
(***************************************************************************)
EXTENDS Integers, Sequences, FiniteSets, TLC

VARIABLES
    input,  \* the table the call was given
    pc,     \* the step that runs next; "done" or "error" when the call is over
    df,     \* the table the next step receives; the returned table at "done"
    prev,   \* the table the last executed step received
    args,   \* the arguments of the call
    err,    \* the error the call raised, NoError when none
    out,    \* what a chart renderer returned
    trace,  \* the steps executed so far, in order
    passed  \* the table the last call was passed, as its caller holds it after the call

vars == <<input, pc, df, prev, args, err, out, trace, passed>>

\* ------------------------------------------------------------------ bounds
MaxRows == 2
MaxAggRows == 2
MaxCompRows == 2
MaxCompetitors == 2
MaxChartRows == 3

\* ------------------------------------------------------- generic helpers
NaN == 0 - 1000000

\* a missing customer name: a blank cell, or the value Series.map gives a name
\* that is no key of the mapping
NoCustomer == "<NA>"

NoError == [kind |-> "none", names |-> <<>>]

Range(s) == {s[i] : i \in DOMAIN s}

SeqsUpTo(S, n) == UNION {[1..k -> S] : k \in 0..n}

RECURSIVE SumSeq(_)
SumSeq(s) == IF s = <<>> THEN 0 ELSE Head(s) + SumSeq(Tail(s))

\* `col in df.columns`
HasCol(t, c) == c \in Range(t.cols)

\* [col for col in names if col not in df.columns]
MissingFrom(t, names) == SelectSeq(names, LAMBDA c : ~HasCol(t, c))

\* df.empty: no rows or no columns
IsEmpty(t) == Len(t.rows) = 0 \/ Len(t.cols) = 0

\* df[c] = values: an existing column keeps its position, a new one is appended
SetColumn(t, c, values) ==
    [cols |-> IF HasCol(t, c) THEN t.cols ELSE Append(t.cols, c),
     rows |-> [i \in DOMAIN t.rows |->
                 [k \in DOMAIN t.rows[i] \cup {c} |->
                     IF k = c THEN values[i] ELSE t.rows[i][k]]]]

\* df[names]: the named columns in the order of names
SelectColumns(t, names) ==
    [cols |-> names,
     rows |-> [i \in DOMAIN t.rows |-> [k \in Range(names) |-> t.rows[i][k]]]]

\* df[mask]: the table with the rows kept by the mask, in their order
FilterRows(t, kept) == [cols |-> t.cols, rows |-> kept]

\* ----------------------------------------------------------- text parsing
Digits == {"0", "1", "2", "3", "4", "5", "6", "7", "8", "9"}

DigitVal == ("0" :> 0) @@ ("1" :> 1) @@ ("2" :> 2) @@ ("3" :> 3) @@ ("4" :> 4)
            @@ ("5" :> 5) @@ ("6" :> 6) @@ ("7" :> 7) @@ ("8" :> 8) @@ ("9" :> 9)

AllDigits(s) == s # <<>> /\ \A i \in DOMAIN s : s[i] \in Digits

RECURSIVE DecVal(_)
DecVal(s) == IF s = <<>> THEN 0
             ELSE DecVal(SubSeq(s, 1, Len(s) - 1)) * 10 + DigitVal[s[Len(s)]]

\* position of the first occurrence of ch in s, 0 when there is none
FirstIndex(s, ch) ==
    IF \E i \in DOMAIN s : s[i] = ch
    THEN CHOOSE i \in DOMAIN s : s[i] = ch /\ \A j \in 1..(i - 1) : s[j] # ch
    ELSE 0

RECURSIVE Split(_, _)
Split(s, ch) ==
    LET i == FirstIndex(s, ch)
    IN  IF i = 0 THEN <<s>>
        ELSE <<SubSeq(s, 1, i - 1)>> \o Split(SubSeq(s, i + 1, Len(s)), ch)

\* a plain decimal number: digits, optionally followed by "." and digits
IsNumber(s) ==
    LET parts == Split(s, ".")
    IN  /\ Len(parts) \in {1, 2}
        /\ AllDigits(parts[1])
        /\ Len(parts) = 2 => AllDigits(parts[2])

\* value of a plain decimal number, in thousandths (the model's resolution)
NumberVal(s) ==
    LET parts == Split(s, ".")
        frac  == IF Len(parts) = 2 THEN parts[2] ELSE <<>>
        pad   == SubSeq(frac \o <<"0", "0", "0">>, 1, 3)
    IN  DecVal(parts[1]) * 1000 + DecVal(pad)

\* ------------------------------------------------------- results of a call
Ok(t) == [err |-> NoError, df |-> t]

Raise(kind, names) ==
    [err |-> [kind |-> kind, names |-> names], df |-> [cols |-> <<>>, rows |-> <<>>]]

\* ------------------------------------------------------------ src/eda.py
get_default_competitor_list == <<"mcns", "wanhua", "basf", "hanwha", "sabic", "other">>

get_default_customer_mapping ==
    ("HEADWAY ADVANCED MATERIALS INC" :> "HEADWAY")
    @@ ("Headway Advanced Materials Inc." :> "HEADWAY")
    @@ ("KUN CHING KEY-INDUSTRY CO LTD" :> "KUN CHING")
    @@ ("KUN CHING INDUSTRIAL CO., LTD." :> "KUN CHING")
    @@ ("CHEN CHI HSIANG INDUSTRY" :> "CHEN CHI HSIANG")
    @@ ("Chiao Fu Enterprise Co.Ltd" :> "CHIAO FU")
    @@ ("Chiao Fu Enterprises Co., Ltd" :> "CHIAO FU")
    @@ ("JIANN FONG POLYURETHANE" :> "JIANN FONG")
    @@ ("TONG FONG TRADING CO LTD" :> "TONG FONG")
    @@ ("TONG FONG TRADING CO., LTD." :> "TONG FONG")
    @@ ("Len Wa Enterprise Corp." :> "LEN WA")
    @@ ("Tayfull Industrial Co.Ltd" :> "TAYFULL")

\* Series.astype(str): a missing value becomes the text "nan"
astype_str(cell) == IF cell = <<>> THEN <<"n", "a", "n">> ELSE cell

\* the texts pandas' strptime takes for a missing timestamp instead of parsing
nat_strings == {<<"N", "a", "T">>, <<"n", "a", "t">>, <<"N", "A", "T">>,
                <<"n", "a", "n">>, <<"N", "a", "N">>, <<"N", "A", "N">>}

IsLeap(y) == (y % 4 = 0 /\ y % 100 # 0) \/ y % 400 = 0

DaysInMonth(y, m) ==
    IF m = 2 THEN (IF IsLeap(y) THEN 29 ELSE 28)
    ELSE IF m \in {4, 6, 9, 11} THEN 30 ELSE 31

\* does the text match format '%d.%m.%Y' and name a calendar day
MatchesDMY(s) ==
    LET parts == Split(s, ".")
    IN  /\ Len(parts) = 3
        /\ AllDigits(parts[1]) /\ Len(parts[1]) \in {1, 2}
        /\ AllDigits(parts[2]) /\ Len(parts[2]) \in {1, 2}
        /\ AllDigits(parts[3]) /\ Len(parts[3]) = 4
        /\ DecVal(parts[2]) \in 1..12
        /\ DecVal(parts[3]) >= 1
        /\ DecVal(parts[1]) \in 1..DaysInMonth(DecVal(parts[3]), DecVal(parts[2]))

\* pd.to_datetime(text, format='%d.%m.%Y') of a text it accepts: the day as
\* the number YYYYMMDD, NaN (NaT) for a missing-value text
to_datetime(s) ==
    IF s = <<>> \/ s \in nat_strings THEN NaN
    ELSE LET parts == Split(s, ".")
         IN  DecVal(parts[3]) * 10000 + DecVal(parts[2]) * 100 + DecVal(parts[1])

\* pd.to_datetime raises on this text
to_datetime_raises(s) == ~(s = <<>> \/ s \in nat_strings \/ MatchesDMY(s))

\* Series.dt.year
dt_year(d) == IF d = NaN THEN NaN ELSE d \div 10000

\* ascending order of sort_values, missing values last
KeyLeq(a, b) == IF a = NaN THEN b = NaN ELSE (b = NaN \/ a <= b)

RECURSIVE InsertSorted(_, _, _)
InsertSorted(sorted, row, key) ==
    IF sorted = <<>> THEN <<row>>
    ELSE IF KeyLeq(Head(sorted)[key], row[key])
         THEN <<Head(sorted)>> \o InsertSorted(Tail(sorted), row, key)
         ELSE <<row>> \o sorted

RECURSIVE SortRows(_, _)
SortRows(rows, key) ==
    IF rows = <<>> THEN <<>>
    ELSE InsertSorted(SortRows(SubSeq(rows, 1, Len(rows) - 1), key), rows[Len(rows)], key)

\* df.sort_values(by=key).reset_index(drop=True)
sort_values(t, key) == [cols |-> t.cols, rows |-> SortRows(t.rows, key)]

process_dates(t) ==
    IF ~HasCol(t, "date") THEN Raise("KeyError", <<"date">>)
    ELSE LET strs == [i \in DOMAIN t.rows |-> astype_str(t.rows[i]["date"])]
             t1   == SetColumn(t, "date", strs)
         IN  IF \E i \in DOMAIN strs : to_datetime_raises(strs[i])
             THEN Raise("DateFormatError", <<"date">>)
             ELSE LET t2 == SetColumn(t1, "date_1",
                               [i \in DOMAIN strs |-> to_datetime(strs[i])])
                      t3 == SetColumn(t2, "year",
                               [i \in DOMAIN strs |-> dt_year(t2.rows[i]["date_1"])])
                  IN  Ok(sort_values(t3, "date_1"))

\* pd.to_numeric(cell, errors='coerce')
to_numeric_coerce(cell) == IF IsNumber(cell) THEN NumberVal(cell) ELSE NaN

\* the text with its commas left in place
replace_comma_kept(s) == s

\* str.replace(',', '.')
replace_comma(s) == [i \in DOMAIN s |-> IF s[i] = "," THEN "." ELSE s[i]]

\* read_csv infers a numeric column when every cell is blank or a plain number;
\* such a column has no .str accessor
IsTextColumn(t, c) ==
    Len(t.rows) = 0 \/ \E i \in DOMAIN t.rows : ~(t.rows[i][c] = <<>> \/ IsNumber(t.rows[i][c]))

convert_numeric_columns(t) ==
    IF ~HasCol(t, "pp") THEN Raise("KeyError", <<"pp">>)
    ELSE IF ~HasCol(t, "margin") THEN Raise("KeyError", <<"margin">>)
    ELSE IF ~HasCol(t, "volume") THEN Raise("KeyError", <<"volume">>)
    ELSE LET t1 == SetColumn(t, "pp",
                      [i \in DOMAIN t.rows |-> to_numeric_coerce(t.rows[i]["pp"])])
             t2 == SetColumn(t1, "margin",
                      [i \in DOMAIN t.rows |-> to_numeric_coerce(t.rows[i]["margin"])])
             vol == [i \in DOMAIN t.rows |-> replace_comma(t.rows[i]["volume"])]
         IN  IF ~IsTextColumn(t, "volume") THEN Raise("AttributeError", <<"volume">>)
             ELSE IF \E i \in DOMAIN vol : vol[i] # <<>> /\ ~IsNumber(vol[i])
             THEN Raise("VolumeFormatError", <<"volume">>)
             ELSE Ok(SetColumn(t2, "volume",
                      [i \in DOMAIN vol |-> IF vol[i] = <<>> THEN NaN ELSE NumberVal(vol[i])]))

\* the selection without the customer name column
required_columns_no_customer == <<"year", "date_1", "soldto_code",
                                  "material", "material_code", "volume", "nasp", "pp">>

required_columns == <<"year", "date_1", "sold_to_customer", "soldto_code",
                      "material", "material_code", "volume", "nasp", "pp">>

filter_required_columns(t) ==
    IF MissingFrom(t, required_columns) # <<>>
    THEN Raise("KeyError", MissingFrom(t, required_columns))
    ELSE LET selected == SelectColumns(t, required_columns)
         IN  Ok(FilterRows(selected,
                           SelectSeq(selected.rows, LAMBDA r : r["nasp"] # <<>>)))

\* the mapping without the filter for mapped names
map_tdi_customers_keep_all(t, customer_mapping) ==
    IF ~HasCol(t, "sold_to_customer") THEN Raise("KeyError", <<"sold_to_customer">>)
    ELSE Ok(SetColumn(t, "tdi_customer",
               [i \in DOMAIN t.rows |->
                   IF t.rows[i]["sold_to_customer"] \in DOMAIN customer_mapping
                   THEN customer_mapping[t.rows[i]["sold_to_customer"]]
                   ELSE NoCustomer]))

map_tdi_customers(t, customer_mapping) ==
    IF ~HasCol(t, "sold_to_customer") THEN Raise("KeyError", <<"sold_to_customer">>)
    ELSE LET t1 == SetColumn(t, "tdi_customer",
                      [i \in DOMAIN t.rows |->
                          IF t.rows[i]["sold_to_customer"] \in DOMAIN customer_mapping
                          THEN customer_mapping[t.rows[i]["sold_to_customer"]]
                          ELSE NoCustomer])
         IN  Ok(FilterRows(t1,
                SelectSeq(t1.rows,
                          LAMBDA r : r["sold_to_customer"] \in DOMAIN customer_mapping)))

\* the customer ids the model uses, in Python's string order; a column that
\* holds only missing values sorts as it is
NameOrder == <<NoCustomer, "ACME", "BETA", "GAMMA", "HEADWAY", "NOBODY", "TONG FONG">>

NameRank(n) == CHOOSE i \in DOMAIN NameOrder : NameOrder[i] = n

\* a < b on strings
StrLess(a, b) == NameRank(a) < NameRank(b)

\* numpy round(2) of the quotient n / d of two thousandths counts: to the
\* nearest hundredth, a tie to the even hundredth
RoundDiv2(n, d) ==
    LET unit == 10 * d
        q    == n \div unit
        r    == n % unit
    IN  IF 2 * r < unit THEN q * 10
        ELSE IF 2 * r > unit THEN (q + 1) * 10
        ELSE IF q % 2 = 0 THEN q * 10 ELSE (q + 1) * 10

\* the cells of column c in the rows, missing values skipped
Present(rows, c) ==
    LET vals == [i \in DOMAIN rows |-> rows[i][c]]
    IN  SelectSeq(vals, LAMBDA v : v # NaN)

\* agg 'mean' followed by round(2): missing when the group has no price
MeanRounded(rows, c) ==
    IF Present(rows, c) = <<>> THEN NaN
    ELSE RoundDiv2(SumSeq(Present(rows, c)), Len(Present(rows, c)))

\* agg 'count' in place of 'sum': the number of cells, as a volume
CountRounded(rows, c) == RoundDiv2(Len(Present(rows, c)) * 1000, 1)

\* agg 'sum' followed by round(2)
SumRounded(rows, c) == RoundDiv2(SumSeq(Present(rows, c)), 1)

\* the group keys of groupby(['year', 'tdi_customer']): rows with a missing
\* key are left out (dropna=True)
GroupKeys(t) ==
    {<<r["year"], r["tdi_customer"]>> : r \in
        {x \in Range(t.rows) : x["year"] # NaN /\ x["tdi_customer"] # NoCustomer}}

KeyLess(a, b) == a[1] < b[1] \/ (a[1] = b[1] /\ StrLess(a[2], b[2]))

\* the keys in ascending order (groupby sorts its keys)
RECURSIVE SortedKeys(_)
SortedKeys(K) ==
    IF K = {} THEN <<>>
    ELSE LET m == CHOOSE k \in K : \A o \in K \ {k} : KeyLess(k, o)
         IN  <<m>> \o SortedKeys(K \ {m})

aggregate_customer_data(t) ==
    IF IsEmpty(t) THEN Ok(t)
    ELSE IF MissingFrom(t, <<"year", "tdi_customer">>) # <<>>
    THEN Raise("KeyError", MissingFrom(t, <<"year", "tdi_customer">>))
    ELSE IF MissingFrom(t, <<"pp", "volume">>) # <<>>
    THEN Raise("KeyError", MissingFrom(t, <<"pp", "volume">>))
    ELSE LET keys == SortedKeys(GroupKeys(t))
             grp(k) == SelectSeq(t.rows,
                          LAMBDA r : r["year"] = k[1] /\ r["tdi_customer"] = k[2])
         IN  Ok([cols |-> <<"year", "tdi_customer", "pp", "volume">>,
                 rows |-> [i \in DOMAIN keys |->
                             [c \in {"year", "tdi_customer", "pp", "volume"} |->
                                 CASE c = "year" -> keys[i][1]
                                   [] c = "tdi_customer" -> keys[i][2]
                                   [] c = "pp" -> MeanRounded(grp(keys[i]), "pp")
                                   [] c = "volume" -> SumRounded(grp(keys[i]), "volume")]]])

\* a + b on floats
NanAdd(a, b) == IF a = NaN \/ b = NaN THEN NaN ELSE a + b

\* result_df[competitor_list].sum(axis=1): missing cells count as 0
RowSum(r, names) ==
    SumSeq([i \in DOMAIN names |-> IF r[names[i]] = NaN THEN 0 ELSE r[names[i]]])

\* for competitor in competitor_list: result_df[competitor] = 0.0
RECURSIVE InitCompetitors(_, _)
InitCompetitors(t, competitor_list) ==
    IF competitor_list = <<>> THEN t
    ELSE InitCompetitors(SetColumn(t, Head(competitor_list), [i \in DOMAIN t.rows |-> 0]),
                         Tail(competitor_list))

\* the column order with demand and volume exchanged
column_order_volume_first(competitor_list) ==
    <<"year", "tdi_customer", "pp", "volume", "demand">> \o competitor_list

column_order(competitor_list) ==
    <<"year", "tdi_customer", "pp", "demand", "volume">> \o competitor_list

\* the demand without the own volume
total_demand_competitors_only(r, competitor_list) == RowSum(r, competitor_list)

\* result_df['volume'] + competitor_sum
total_demand(r, competitor_list) == NanAdd(r["volume"], RowSum(r, competitor_list))

add_competitor_analysis(t, competitor_list) ==
    IF IsEmpty(t) THEN Ok(t)
    ELSE LET t1 == InitCompetitors(t, competitor_list)
         IN  IF ~HasCol(t1, "volume") THEN Raise("KeyError", <<"volume">>)
             ELSE LET t2 == SetColumn(t1, "demand",
                               [i \in DOMAIN t1.rows |->
                                   total_demand(t1.rows[i], competitor_list)])
                  IN  IF MissingFrom(t2, column_order(competitor_list)) # <<>>
                      THEN Raise("KeyError", MissingFrom(t2, column_order(competitor_list)))
                      ELSE Ok(SelectColumns(t2, column_order(competitor_list)))

\* ---------------------------------------------- src/drawchat.py validation
\* sorted(names) on strings
RECURSIVE SortedNames(_)
SortedNames(S) ==
    IF S = {} THEN <<>>
    ELSE LET m == CHOOSE n \in S : \A o \in S \ {n} : StrLess(n, o)
         IN  <<m>> \o SortedNames(S \ {m})

RECURSIVE SortedInts(_)
SortedInts(S) ==
    IF S = {} THEN <<>>
    ELSE LET m == CHOOSE n \in S : \A o \in S : n <= o
         IN  <<m>> \o SortedInts(S \ {m})

\* df[c].values as a set
ColumnValues(t, c) == {t.rows[i][c] : i \in DOMAIN t.rows}

\* no figure: None was returned, or the call raised
NoFigure == [kind |-> "none", years |-> <<>>]

\* the required columns without the literal 'demand'
chart_required_columns_no_demand(a) ==
    <<a.customer_column, a.year_column>> \o a.suppliers

\* required_columns = [customer_column, year_column, 'demand'] + suppliers
chart_required_columns(a) ==
    <<a.customer_column, a.year_column, "demand">> \o a.suppliers

\* sorted(df[customer_column].unique())
available_customers(t, a) == SortedNames(ColumnValues(t, a.customer_column))

\* sorted() cannot compare a name with a missing value (a float)
sorted_raises(S) == NoCustomer \in S /\ S # {NoCustomer}

\* The validation and data preparation that plot_customer_demand,
\* plot_customer_demand1 and plot_customer_demand_with_price open with (the
\* three functions repeat the same statements).  steps lists the statements
\* executed, in order.
prepare_customer_data(t, a) ==
    LET missing_columns == MissingFrom(t, chart_required_columns(a))
        missing_suppliers == MissingFrom(t, a.suppliers)
        customer_df == sort_values(
            FilterRows(t, SelectSeq(t.rows,
                              LAMBDA r : r[a.customer_column] = a.customer_name
                                         /\ a.customer_name # NoCustomer)),
            a.year_column)
        year_values == ColumnValues(customer_df, a.year_column)
        \* sorted(customer_df[year_column].unique()): a missing year, last after
        \* sort_values, compares false with every year and stays last
        years == SortedInts(year_values \ {NaN})
                 \o (IF NaN \in year_values THEN <<NaN>> ELSE <<>>)
        fail(kind, names, steps) ==
            [err |-> [kind |-> kind, names |-> names], steps |-> steps,
             customer_df |-> [cols |-> <<>>, rows |-> <<>>], years |-> <<>>]
    IN  IF missing_columns # <<>>
        THEN fail("MissingColumns", missing_columns, <<"check_columns">>)
        ELSE IF a.customer_name \notin ColumnValues(t, a.customer_column) \ {NoCustomer}
        THEN IF sorted_raises(ColumnValues(t, a.customer_column))
             THEN fail("TypeError", <<>>, <<"check_columns", "check_customer">>)
             ELSE fail("CustomerNotFound", available_customers(t, a),
                       <<"check_columns", "check_customer">>)
        ELSE IF missing_suppliers # <<>>
        THEN fail("SuppliersNotFound", missing_suppliers,
                  <<"check_columns", "check_customer", "check_suppliers">>)
        ELSE IF IsEmpty(customer_df)
        THEN fail("NoData", <<>>,
                  <<"check_columns", "check_customer", "check_suppliers", "filter_customer">>)
        ELSE IF Len(years) = 0
        THEN fail("NoData", <<>>,
                  <<"check_columns", "check_customer", "check_suppliers", "filter_customer",
                    "sort_values", "years">>)
        ELSE [err |-> NoError,
              steps |-> <<"check_columns", "check_customer", "check_suppliers",
                          "filter_customer", "sort_values", "years", "subplots">>,
              customer_df |-> customer_df, years |-> years]

\* -------------------------------------------- src/drawchat.py chart layout
\* customer_df[customer_df[year_column] == year]; a missing year equals
\* nothing, not even itself
year_data(customer_df, a, year) ==
    SelectSeq(customer_df.rows, LAMBDA r : r[a.year_column] = year /\ year # NaN)

\* one value per row of the customer instead of one per year
series_values_per_row(customer_df, a, years, col) ==
    [i \in DOMAIN customer_df.rows |-> customer_df.rows[i][col]]

\* np.array([customer_df[customer_df[year_column] == year][col].iloc[0] ...
\*           else 0 for year in years]): the cell of the first row of each year
series_values(customer_df, a, years, col) ==
    [i \in DOMAIN years |->
        IF year_data(customer_df, a, years[i]) = <<>> THEN 0
        ELSE year_data(customer_df, a, years[i])[1][col]]

\* bottom after the first j suppliers: np.zeros(n_years), then bottom += values
\* after each supplier; a missing value makes the offset of its year missing
RECURSIVE bottom(_, _, _, _)
bottom(customer_df, a, years, j) ==
    IF j = 0 THEN [i \in DOMAIN years |-> 0]
    ELSE [i \in DOMAIN years |->
            NanAdd(bottom(customer_df, a, years, j - 1)[i],
                   series_values(customer_df, a, years, a.suppliers[j])[i])]

\* year_data[suppliers].sum(axis=1).iloc[0] if not year_data.empty else 0
total_height(customer_df, a, year) ==
    IF year_data(customer_df, a, year) = <<>> THEN 0
    ELSE RowSum(year_data(customer_df, a, year)[1], a.suppliers)

NoValueLabel == [shown |-> FALSE, light |-> FALSE]

\* the label on every segment that has a value above 0, whatever its share
value_label_always(name, value, total) ==
    IF value = NaN \/ ~(value > 0) THEN NoValueLabel
    ELSE [shown |-> TRUE, light |-> 100 * value > 15 * total]

\* the label of a segment of the stack: if value > 0 (plot_customer_demand1:
\* and total_height > 0) and value > total_height * 0.05, a label that is
\* white on black if value > total_height * 0.15 and black on white if not
value_label(name, value, total) ==
    IF value = NaN \/ ~(value > 0) THEN NoValueLabel
    ELSE IF name = "plot_customer_demand1" /\ ~(total > 0) THEN NoValueLabel
    ELSE IF 20 * value > total
         THEN [shown |-> TRUE, light |-> 100 * value > 15 * total]
         ELSE NoValueLabel

\* ndarray.max(): missing when any element is missing
ArrayMax(s) ==
    IF \E i \in DOMAIN s : s[i] = NaN THEN NaN
    ELSE CHOOSE m \in Range(s) : \A v \in Range(s) : v <= m

\* max(a, b) of Python: a unless b > a, and no comparison with a missing
\* value is true
PyMax(a, b) == IF a # NaN /\ b # NaN /\ b > a THEN b ELSE a

\* max_demand = max(max_demand, v) for each v in order
RECURSIVE FoldMax(_, _)
FoldMax(m, s) == IF s = <<>> THEN m ELSE FoldMax(PyMax(m, Head(s)), Tail(s))

\* the years that get the thin outline: for year in years:
\* if year in [2022, 2023, 2024] and pd.notna(demand_value) and demand_value > 0
outline_years(customer_df, a, years) ==
    LET demand_values == series_values(customer_df, a, years, "demand")
    IN  {years[i] : i \in {k \in DOMAIN years :
                              /\ years[k] \in {2022, 2023, 2024}
                              /\ demand_values[k] # NaN
                              /\ demand_values[k] > 0}}

\* the legend entries 'Demand (2022-2024)': a thin outline bar carries the
\* label only at the first position of the year axis
\* (label='Demand (2022-2024)' if i == 0 else None)
demand_legend_entries(customer_df, a, years) ==
    Cardinality({i \in DOMAIN years : years[i] \in outline_years(customer_df, a, years)
                                      /\ i = 1})

\* the heavy outline at the last year of the customer, whatever it is
forecast_year_last(customer_df, a, years) ==
    IF series_values(customer_df, a, years, "demand")[Len(years)] # NaN
    THEN {years[Len(years)]} ELSE {}

\* the year that gets the heavy outline: if 2025 in years and
\* pd.notna(year_data['demand'].iloc[0])
forecast_year(customer_df, a, years) ==
    IF 2025 \in Range(years) /\ year_data(customer_df, a, 2025)[1]["demand"] # NaN
    THEN {2025} ELSE {}

\* max_demand as the stacked loop and the two demand overlays leave it
max_demand(customer_df, a, years) ==
    LET demand_values == series_values(customer_df, a, years, "demand")
        stack == [j \in DOMAIN a.suppliers |-> ArrayMax(bottom(customer_df, a, years, j))]
        thin  == [i \in DOMAIN years |->
                     IF years[i] \in outline_years(customer_df, a, years)
                     THEN demand_values[i] ELSE NaN]
        heavy == [i \in DOMAIN years |->
                     IF years[i] \in forecast_year(customer_df, a, years)
                     THEN demand_values[i] ELSE NaN]
    IN  FoldMax(FoldMax(FoldMax(0, stack), thin), heavy)

\* max_demand if max_demand > 0 else 100
auto_max_demand(m) == IF m > 0 THEN m ELSE 100

\* the limits of the demand axis, in tenths: set_ylim(demand_ylim[0],
\* demand_ylim[1]) if demand_ylim, else set_ylim(0, max_demand * 1.1)
demand_axis(customer_df, a, years) ==
    IF a.demand_ylim # <<>>
    THEN <<10 * a.demand_ylim[1], 10 * a.demand_ylim[2]>>
    ELSE <<0, 11 * auto_max_demand(max_demand(customer_df, a, years))>>

\* tick_interval = max(1, math.ceil(max_demand / 10))
tick_interval(m) == IF (m + 9) \div 10 > 1 THEN (m + 9) \div 10 ELSE 1

\* The maxima up to 1000 for which max_demand * 1.1 + tick_interval, computed
\* in binary floating point, comes out above the exact sum.  They are
\* multiples of ten: for these the exact sum is a multiple of the interval,
\* and the product by 1.1 (a double slightly above 11/10) rounds upwards.
stop_rounds_up ==
    {50, 90, 100, 170, 180, 190, 200, 210, 330, 340, 350, 360, 370, 380, 390,
     400, 410, 420, 650, 660, 670, 680, 690, 700, 710, 720, 730, 740, 750,
     760, 770, 780, 790, 800, 810, 820, 830, 840, 850}

\* np.arange(0, max_demand * 1.1 + tick_interval, tick_interval): the
\* multiples of the interval below the stop value
yticks(m) ==
    LET step == tick_interval(m)
        n == (11 * m + 10 * step + 10 * step - 1) \div (10 * step)
             + (IF m \in stop_rounds_up THEN 1 ELSE 0)
    IN  [k \in 1..n |-> (k - 1) * step]

\* the ticks of the demand axis: set only when no demand_ylim is given
demand_ticks(customer_df, a, years) ==
    IF a.demand_ylim # <<>> THEN <<>>
    ELSE yticks(auto_max_demand(max_demand(customer_df, a, years)))

\* price_columns = [col for col in price_columns if col in df.columns]
valid_price_columns(t, a) == SelectSeq(a.price_columns, LAMBDA c : HasCol(t, c))

\* price_data_by_column: for each price column and year the price of the first
\* row of the year, None (here NaN) when it is missing
price_data_by_column(customer_df, a, years, price_columns) ==
    [idx \in DOMAIN price_columns |->
        [i \in DOMAIN years |->
            IF year_data(customer_df, a, years[i]) = <<>> THEN NaN
            ELSE year_data(customer_df, a, years[i])[1][price_columns[idx]]]]

RECURSIVE InsertByPrice(_, _)
InsertByPrice(sorted, e) ==
    IF sorted = <<>> THEN <<e>>
    ELSE IF Head(sorted)[1] <= e[1]
         THEN <<Head(sorted)>> \o InsertByPrice(Tail(sorted), e)
         ELSE <<e>> \o sorted

\* the (price, column) pairs of a year left in column order
year_prices_unsorted(year_prices) == year_prices

\* year_prices.sort(key=lambda x: x[0]): ascending by price, equal prices stay
\* in column order
RECURSIVE year_prices_sort(_)
year_prices_sort(year_prices) ==
    IF year_prices = <<>> THEN <<>>
    ELSE InsertByPrice(year_prices_sort(SubSeq(year_prices, 1, Len(year_prices) - 1)),
                       year_prices[Len(year_prices)])

\* positions[(year_idx, col_idx)] = base_offset + (i * spacing), i counting
\* from 0 along the sorted prices of the year
calculate_annotation_positions(price_data_by_year, spacing, years) ==
    LET year_prices(year_idx) ==
            LET cols == SelectSeq([c \in DOMAIN price_data_by_year |-> c],
                                  LAMBDA c : price_data_by_year[c][year_idx] # NaN)
            IN  year_prices_sort([k \in DOMAIN cols |->
                                     <<price_data_by_year[cols[k]][year_idx], cols[k]>>])
        keys == {<<year_idx, col_idx>> \in (DOMAIN years) \X (DOMAIN price_data_by_year) :
                    price_data_by_year[col_idx][year_idx] # NaN}
    IN  [k \in keys |->
            LET sorted == year_prices(k[1])
                i == CHOOSE n \in DOMAIN sorted : sorted[n][2] = k[2]
            IN  25 + (i - 1) * spacing]

\* all_price_values: the prices plotted, of every price column and year
all_price_values(price_data_by_year) ==
    UNION {Range(price_data_by_year[c]) : c \in DOMAIN price_data_by_year} \ {NaN}

\* the padding of a flat price line taken as 20 units whatever the price
price_padding_fixed(min_price) == 10000

\* padding = abs(min_price) * 0.2 if min_price != 0 else 20, in
\* five-hundredths of a hundredth
price_padding(min_price) ==
    IF min_price # 0 THEN (IF min_price < 0 THEN 0 - min_price ELSE min_price)
    ELSE 10000

\* The limits of the price axis, in five-hundredths of a hundredth (prices
\* are in hundredths): none when no price is plotted; price_ylim when given;
\* else the smallest and largest price padded by 20 percent of their
\* distance, or by the padding of a flat line.
price_axis(price_data_by_year, a) ==
    LET all == all_price_values(price_data_by_year)
        min_price == CHOOSE v \in all : \A w \in all : v <= w
        max_price == CHOOSE v \in all : \A w \in all : w <= v
        price_range == max_price - min_price
    IN  IF all = {} THEN <<>>
        ELSE IF a.price_ylim # <<>> THEN <<5 * a.price_ylim[1], 5 * a.price_ylim[2]>>
        ELSE IF price_range > 0
        THEN <<5 * min_price - price_range, 5 * max_price + price_range>>
        ELSE <<5 * min_price - price_padding(min_price),
               5 * max_price + price_padding(min_price)>>

\* what a renderer draws for the customer: the shared year axis, one series
\* per supplier with the offset it is stacked on, the row total of each year,
\* the demand series and the years of its two kinds of marker, the limits of
\* the demand axis, and (plot_customer_demand_with_price) the price series
\* with the offsets of their annotations
figure(name, t, customer_df, years, a) ==
    LET price_columns == IF name = "plot_customer_demand_with_price"
                         THEN valid_price_columns(t, a) ELSE <<>>
        prices == price_data_by_column(customer_df, a, years, price_columns)
    IN  [kind |-> "figure",
         years |-> years,
         suppliers |-> a.suppliers,
         values |-> [j \in DOMAIN a.suppliers |->
                        series_values(customer_df, a, years, a.suppliers[j])],
         bottoms |-> [j \in DOMAIN a.suppliers |-> bottom(customer_df, a, years, j - 1)],
         top |-> bottom(customer_df, a, years, Len(a.suppliers)),
         total_height |-> [i \in DOMAIN years |-> total_height(customer_df, a, years[i])],
         labels |-> [j \in DOMAIN a.suppliers |->
                        [i \in DOMAIN years |->
                            value_label(name,
                                series_values(customer_df, a, years, a.suppliers[j])[i],
                                total_height(customer_df, a, years[i]))]],
         demand_values |-> series_values(customer_df, a, years, "demand"),
         substituted |-> {i \in DOMAIN years : year_data(customer_df, a, years[i]) = <<>>},
         outline |-> outline_years(customer_df, a, years),
         legend_demand |-> demand_legend_entries(customer_df, a, years),
         forecast |-> forecast_year(customer_df, a, years),
         max_demand |-> max_demand(customer_df, a, years),
         ylim |-> demand_axis(customer_df, a, years),
         yticks |-> demand_ticks(customer_df, a, years),
         price_columns |-> price_columns,
         prices |-> prices,
         price_ylim |-> price_axis(prices, a),
         offsets |-> calculate_annotation_positions(prices, a.annotation_spacing, years)]

\* one call of a renderer: the figure, or the error it raised
Render(name) ==
    /\ pc = "render"
    /\ LET r == prepare_customer_data(df, args)
       IN  /\ err' = r.err
           /\ trace' = <<name>> \o r.steps
           /\ out' = IF r.err = NoError
                     THEN figure(name, df, r.customer_df, r.years, args)
                     ELSE NoFigure
           /\ pc' = IF r.err = NoError THEN "done" ELSE "error"
    /\ prev' = df
    /\ passed' = df
    /\ UNCHANGED <<input, df, args>>

plot_customer_demand == Render("plot_customer_demand")

plot_customer_demand1 == Render("plot_customer_demand1")

plot_customer_demand_with_price == Render("plot_customer_demand_with_price")

\* ------------------------------------------ src/drawchat.py business plan
\* DataFrame.fillna(0) on the value columns
fillna0(v) == IF v = NaN THEN 0 ELSE v

\* the threshold without its floor of 50 units
min_height_for_text_no_floor(total) == total

\* max(total * 0.05, 50), in twentieths of a unit
min_height_for_text(total) == IF total > 1000 THEN total ELSE 1000

\* n / d rounded to the nearest integer, a tie to the even one (format '.1f'
\* of a percentage counted in tenths)
RoundHalfEven(n, d) ==
    LET q == n \div d
        r == n % d
    IN  IF 2 * r < d THEN q
        ELSE IF 2 * r > d THEN q + 1
        ELSE IF q % 2 = 0 THEN q ELSE q + 1

NoLabel == [shown |-> FALSE, kind |-> "none", number |-> 0]

\* the label of one segment: if val > min_height_for_text, the percentage
\* (in tenths of a percent) if show_percentages and total > 0, else the value
segment_label(val, total, show_percentages) ==
    IF 20 * val > min_height_for_text(total)
    THEN IF show_percentages /\ total > 0
         THEN [shown |-> TRUE, kind |-> "percent", number |-> RoundHalfEven(1000 * val, total)]
         ELSE [shown |-> TRUE, kind |-> "value", number |-> val]
    ELSE NoLabel

\* an empty selection answered by raising, as the demand charts do
empty_customer_data_raises == [err |-> [kind |-> "NoData", names |-> <<>>], out |-> NoFigure]

\* if customer_data.empty: print(...); return None
empty_customer_data == [err |-> NoError, out |-> NoFigure]

\* the axis ending at the largest total, without padding
plan_ylim_unpadded(totals) ==
    <<0, 100 * (CHOOSE m \in Range(totals) : \A v \in Range(totals) : v <= m)>>

\* ax.set_ylim(0, y_max * 1.15), y_max the largest min + base + max of a
\* row; the limits in hundredths
plan_ylim(totals) ==
    <<0, 115 * (CHOOSE m \in Range(totals) : \A v \in Range(totals) : v <= m)>>

\* plot_customer_business_plan: None when the customer has no row, else the
\* stacked min, base and max bars of the customer's rows in year order with
\* their labels
business_plan(t, a) ==
    LET customer_data == sort_values(
            FilterRows(t, SelectSeq(t.rows,
                              LAMBDA r : r["customer"] = a.customer_name
                                         /\ a.customer_name # NoCustomer)),
            "year")
        rows == customer_data.rows
        bar(i) ==
            LET min_val  == fillna0(rows[i]["min"])
                base_val == fillna0(rows[i]["base"])
                max_val  == fillna0(rows[i]["max"])
                total    == min_val + base_val + max_val
            IN  [year |-> rows[i]["year"], min |-> min_val, base |-> base_val,
                 max |-> max_val,
                 min_bottom |-> 0, base_bottom |-> min_val,
                 max_bottom |-> min_val + base_val,
                 min_label  |-> segment_label(min_val, total, a.show_percentages),
                 base_label |-> segment_label(base_val, total, a.show_percentages),
                 max_label  |-> segment_label(max_val, total, a.show_percentages)]
        fail(names) == [err |-> [kind |-> "KeyError", names |-> names], out |-> NoFigure]
    IN  IF ~HasCol(t, "customer") THEN fail(<<"customer">>)
        ELSE IF \A i \in DOMAIN t.rows :
                    ~(t.rows[i]["customer"] = a.customer_name /\ a.customer_name # NoCustomer)
        THEN empty_customer_data
        ELSE IF ~HasCol(t, "year") THEN fail(<<"year">>)
        ELSE IF MissingFrom(t, <<"min", "base", "max">>) # <<>>
        THEN fail(<<Head(MissingFrom(t, <<"min", "base", "max">>))>>)
        ELSE [err |-> NoError,
              out |-> [kind |-> "plan", bars |-> [i \in DOMAIN rows |-> bar(i)],
                       ylim |-> plan_ylim([i \in DOMAIN rows |->
                                   bar(i).min + bar(i).base + bar(i).max])]]

\* one call of plot_customer_business_plan
plot_customer_business_plan ==
    /\ pc = "render_plan"
    /\ LET r == business_plan(df, args)
       IN  /\ err' = r.err
           /\ out' = r.out
           /\ pc' = IF r.err = NoError THEN "done" ELSE "error"
    /\ trace' = <<"plot_customer_business_plan">>
    /\ prev' = df
    /\ passed' = df
    /\ UNCHANGED <<input, df, args>>

\* ------------------------------------------------ src/app.py, src/app1.py
\* Config.SUPPLIERS (app.py); mdi_suppliers, tdi_suppliers, covestro_supplier
\* (app1.py)
SUPPLIERS ==
    [mdi |-> <<"covestro", "tosoh", "wanhua", "kmc", "basf", "sabic", "huntsman">>,
     tdi |-> <<"covestro", "mcns", "wanhua", "basf", "hanwha", "sabic", "other">>,
     covestro |-> <<"covestro">>]

\* the Python class of an error of the core: the renderers raise ValueError
\* for what they check themselves; a failed column lookup is a KeyError and a
\* failed comparison a TypeError
ErrorType(e) ==
    IF e.kind \in {"MissingColumns", "CustomerNotFound", "SuppliersNotFound", "NoData"}
    THEN "ValueError" ELSE e.kind

\* Series.max() of column c over the rows, missing values skipped
SeriesMax(rows, c) ==
    IF Present(rows, c) = <<>> THEN NaN
    ELSE CHOOSE m \in Range(Present(rows, c)) : \A v \in Range(Present(rows, c)) : v <= m

\* the customers st.selectbox offers, df['customer'].unique(); with no
\* option the selection is None
selectbox_options(t) ==
    IF ~HasCol(t, "customer") \/ Len(t.rows) = 0 THEN {NoCustomer}
    ELSE ColumnValues(t, "customer")

\* the arguments both applications pass to a demand-chart renderer
chart_call(customer_name, suppliers, demand_ylim, price_columns, price_ylim) ==
    [customer_name |-> customer_name, customer_column |-> "customer",
     year_column |-> "year", suppliers |-> suppliers, demand_ylim |-> demand_ylim,
     price_columns |-> price_columns, annotation_spacing |-> 25,
     price_ylim |-> price_ylim]

\* the call of a demand-chart renderer: its figure or its error
demand_chart(name, t, a) ==
    LET r == prepare_customer_data(t, a)
    IN  [err |-> r.err,
         out |-> IF r.err = NoError THEN figure(name, t, r.customer_df, r.years, a)
                 ELSE NoFigure]

\* what the user gets: the figure (st.pyplot), a message (st.error), or an
\* exception that left the handler
Shown(fig) == [outcome |-> "shown", err |-> NoError, out |-> fig]

Message(e) == [outcome |-> "message", err |-> e, out |-> NoFigure]

Uncaught(e) == [outcome |-> "uncaught", err |-> e, out |-> NoFigure]

KeyError(c) == [kind |-> "KeyError", names |-> <<c>>]

\* the chart the handler asks the core for, by chart type
core_call(chart_type, t, customer_name, material, ylim_factor) ==
    LET df_filtered == SelectSeq(t.rows, LAMBDA r : r["customer"] = customer_name
                                                    /\ customer_name # NoCustomer)
        max_demand_of_customer ==
            IF df_filtered = <<>> THEN 0 ELSE SeriesMax(df_filtered, "demand")
        ylim == <<0, (ylim_factor * max_demand_of_customer) \div 10>>
        max_price == IF df_filtered = <<>> THEN 0 ELSE SeriesMax(df_filtered, "pocket price")
        price_ylim == <<50, (15 * max_price) \div 10>>
    IN  IF chart_type = "Customer Demand"
        THEN demand_chart("plot_customer_demand1", t,
                 chart_call(customer_name,
                            IF material = "TDI" THEN SUPPLIERS.tdi ELSE SUPPLIERS.mdi,
                            ylim, <<>>, <<>>))
        ELSE IF chart_type = "Account price vs Volume"
        THEN demand_chart("plot_customer_demand_with_price", t,
                 chart_call(customer_name, SUPPLIERS.covestro, ylim,
                            IF material = "TDI" THEN <<"pocket price", "apac_pp">>
                            ELSE <<"pocket price", "seap_pp", "apac_pp">>,
                            price_ylim))
        ELSE business_plan(t, [customer_name |-> customer_name,
                               show_percentages |-> FALSE])

\* the columns the handler itself reads before it calls the core
columns_read(chart_type) ==
    IF chart_type = "Customer Demand" THEN <<"demand">>
    ELSE IF chart_type = "Account price vs Volume" THEN <<"demand", "pocket price">>
    ELSE <<>>

\* app.py, Visualizer.plot_chart: the checks of the handler, the call of the
\* core, and except ValueError / except Exception around both
plot_chart(chart_type, t, customer_name, material) ==
    IF IsEmpty(t) \/ ~HasCol(t, "customer") THEN Message(NoError)
    ELSE IF MissingFrom(t, columns_read(chart_type)) # <<>> THEN Message(NoError)
    ELSE LET r == core_call(chart_type, t, customer_name, material,
                            IF chart_type = "Customer Demand" THEN 14 ELSE 20)
         IN  IF r.err # NoError THEN Message(r.err) ELSE Shown(r.out)

\* app.py, main: the customer selectbox, then plot_chart on the button
app_main(chart_type, t, customer_name, material) ==
    IF IsEmpty(t) THEN Message(NoError)
    ELSE IF ~HasCol(t, "customer") THEN Uncaught(KeyError("customer"))
    ELSE plot_chart(chart_type, t, customer_name, material)

\* app1.py: except ValueError as e: st.error(str(e))
app1_catches(e) == ErrorType(e) = "ValueError"

\* app1.py, Visual_customer_demand / Visual_account_price_volume /
\* Visual_business_plan: the customer selectbox outside the try, the maxima
\* and the call of the core inside it
app1_visual(chart_type, t, customer_name, material) ==
    IF ~HasCol(t, "customer") THEN Uncaught(KeyError("customer"))
    ELSE IF MissingFrom(t, columns_read(chart_type)) # <<>>
    THEN IF app1_catches(KeyError(Head(MissingFrom(t, columns_read(chart_type)))))
         THEN Message(KeyError(Head(MissingFrom(t, columns_read(chart_type)))))
         ELSE Uncaught(KeyError(Head(MissingFrom(t, columns_read(chart_type)))))
    ELSE LET r == core_call(chart_type, t, customer_name, material,
                            IF chart_type = "Customer Demand" THEN 14 ELSE 20)
         IN  IF r.err = NoError THEN Shown(r.out)
             ELSE IF app1_catches(r.err) THEN Message(r.err)
             ELSE Uncaught(r.err)

\* one render request: the user picks a customer and presses the button
Respond(r, name, customer_name) ==
    /\ pc' = r.outcome
    /\ err' = r.err
    /\ out' = r.out
    /\ trace' = <<name, customer_name>>

Request(name, app) ==
    /\ pc = "request"
    /\ \E customer_name \in selectbox_options(df) :
          Respond(IF app = "app"
                  THEN app_main(args.chart_type, df, customer_name, args.material)
                  ELSE app1_visual(args.chart_type, df, customer_name, args.material),
                  name, customer_name)
    /\ prev' = df
    /\ passed' = df
    /\ UNCHANGED <<input, df, args>>

AppMain == Request("app.main", "app")

Visual_customer_demand ==
    args.chart_type = "Customer Demand" /\ Request("app1.Visual_customer_demand", "app1")

Visual_account_price_volume ==
    /\ args.chart_type = "Account price vs Volume"
    /\ Request("app1.Visual_account_price_volume", "app1")

Visual_business_plan ==
    args.chart_type = "Business plan" /\ Request("app1.Visual_business_plan", "app1")

\* ------------------------------------- src/app.py, src/app1.py: data source
\* the four datasets of the upload form
DatasetKeys == <<"mdi", "mdi_bp", "tdi", "tdi_bp">>

EmptyDataFrame == [cols |-> <<>>, rows |-> <<>>]

\* DataLoader.load_csv(file_path, uploaded_file) with an uploaded file: its
\* table, or an empty DataFrame when pd.read_csv raises
load_csv(upload, uploaded_table) ==
    IF upload = "csv" THEN uploaded_table ELSE EmptyDataFrame

\* locals()[name] = value inside a function: the dictionary returned by
\* locals() is written, the variables of the running function are not
locals_assign(frame, name, value) == frame

\* app.py, main, lines 174-186: the tables main holds after loading.  files
\* are the default files, upload tells for each dataset whether a file was
\* uploaded ("none", "csv", or "bad" for one that read_csv rejects)
RECURSIVE app_uploads(_, _, _, _)
app_uploads(frame, keys, upload, uploaded) ==
    IF keys = <<>> THEN frame
    ELSE app_uploads(
             IF upload[Head(keys)] # "none"
             THEN locals_assign(frame, Head(keys),
                                load_csv(upload[Head(keys)], uploaded[Head(keys)]))
             ELSE frame,
             Tail(keys), upload, uploaded)

app_load_data(a, files, uploaded) ==
    LET is_vietnam == a.country = "Vietnam"
        data_source == IF is_vietnam THEN a.data_source ELSE "Default Files"
        loaded == IF is_vietnam
                  THEN [mdi |-> files.mdi, mdi_bp |-> files.mdi_bp,
                        tdi |-> files.tdi, tdi_bp |-> files.tdi_bp]
                  ELSE [tdi_bp |-> files.tw_tdi_bp, tdi |-> files.tw_tdi]
    IN  IF is_vietnam /\ data_source = "Upload New Files"
        THEN app_uploads(loaded, DatasetKeys, a.upload, uploaded)
        ELSE loaded

\* app1.py, lines 159-197: df_x = pd.read_csv(x_file) in a try for each
\* uploaded file; a file that read_csv rejects leaves the default table
app1_load_data(a, files, uploaded) ==
    [k \in {"mdi", "mdi_bp", "tdi", "tdi_bp"} |->
        IF a.data_source = "Upload New Files" /\ a.upload[k] = "csv"
        THEN uploaded[k] ELSE files[k]]

\* the dataset a chart type and material work on
dataset_key(chart_type, material) ==
    IF chart_type # "Business plan"
    THEN (IF material = "TDI" THEN "tdi" ELSE "mdi")
    ELSE (IF material = "TDI" THEN "tdi_bp" ELSE "mdi_bp")

\* app.py, main, lines 163-193: the table the customer selector and the plot
\* work on
AppLoad ==
    /\ pc = "load"
    /\ LET type_material == IF args.country = "Vietnam" THEN args.material ELSE "TDI"
       IN  df' = app_load_data(args, input.files, input.uploaded)[dataset_key(args.chart_type, type_material)]
    /\ pc' = "loaded"
    /\ trace' = <<"app.main">>
    /\ passed' = df
    /\ UNCHANGED <<input, prev, args, err, out>>

\* app1.py, lines 152-207
App1Load ==
    /\ pc = "load"
    /\ df' = app1_load_data(args, input.files, input.uploaded)[dataset_key(args.chart_type, args.material)]
    /\ pc' = "loaded"
    /\ trace' = <<"app1.__main__">>
    /\ passed' = df
    /\ UNCHANGED <<input, prev, args, err, out>>

\* ------------------------------------------- src/eda.py, the caller's table
\* The transforms assign columns in place (df['year'] = ...).  written is the
\* table these assignments leave behind, up to the return or the raise; a
\* later df = df.sort_values(...) or df[mask] binds a new table and does not
\* count.  The caller's table is what it was when the function took a copy
\* before its first assignment, and written when it did not.
after_call(copied, t, written) == IF copied THEN t ELSE written

\* line 40: df = df.copy()
process_dates_copy == TRUE

\* lines 43, 47, 48
process_dates_written(t) ==
    IF ~HasCol(t, "date") THEN t
    ELSE LET strs == [i \in DOMAIN t.rows |-> astype_str(t.rows[i]["date"])]
             t1   == SetColumn(t, "date", strs)
         IN  IF \E i \in DOMAIN strs : to_datetime_raises(strs[i]) THEN t1
             ELSE LET t2 == SetColumn(t1, "date_1",
                               [i \in DOMAIN strs |-> to_datetime(strs[i])])
                  IN  SetColumn(t2, "year",
                          [i \in DOMAIN strs |-> dt_year(t2.rows[i]["date_1"])])

\* line 59: df = df.copy()
convert_numeric_columns_copy == TRUE

\* lines 62, 63, 66
convert_numeric_columns_written(t) ==
    IF ~HasCol(t, "pp") THEN t
    ELSE LET t1 == SetColumn(t, "pp",
                      [i \in DOMAIN t.rows |-> to_numeric_coerce(t.rows[i]["pp"])])
         IN  IF ~HasCol(t, "margin") THEN t1
             ELSE LET t2 == SetColumn(t1, "margin",
                               [i \in DOMAIN t.rows |-> to_numeric_coerce(t.rows[i]["margin"])])
                  IN  IF convert_numeric_columns(t).err # NoError THEN t2
                      ELSE convert_numeric_columns(t).df

\* the mapping working on the table of the caller
map_tdi_customers_no_copy == FALSE

\* line 85: df = df.copy()
map_tdi_customers_copy == TRUE

\* line 88
map_tdi_customers_written(t, customer_mapping) ==
    IF ~HasCol(t, "sold_to_customer") THEN t
    ELSE SetColumn(t, "tdi_customer",
             [i \in DOMAIN t.rows |->
                 IF t.rows[i]["sold_to_customer"] \in DOMAIN customer_mapping
                 THEN customer_mapping[t.rows[i]["sold_to_customer"]]
                 ELSE NoCustomer])

\* line 120: result_df = df.copy()
add_competitor_analysis_copy == TRUE

\* lines 123-124, 128
add_competitor_analysis_written(t, competitor_list) ==
    IF IsEmpty(t) THEN t
    ELSE LET t1 == InitCompetitors(t, competitor_list)
         IN  IF ~HasCol(t1, "volume") THEN t1
             ELSE SetColumn(t1, "demand",
                      [i \in DOMAIN t1.rows |-> total_demand(t1.rows[i], competitor_list)])

\* ------------------------------------------------ the explore_data pipeline
\* one step of explore_data: df = step(df)
Step(name, result, after, next) ==
    /\ pc = name
    /\ trace' = Append(trace, name)
    /\ prev' = df
    /\ passed' = after
    /\ err' = result.err
    /\ df' = IF result.err = NoError THEN result.df ELSE df
    /\ pc' = IF result.err = NoError THEN next ELSE "error"
    /\ UNCHANGED <<input, args, out>>

ProcessDates ==
    Step("process_dates", process_dates(df),
         after_call(process_dates_copy, df, process_dates_written(df)),
         "convert_numeric_columns")

ConvertNumericColumns ==
    Step("convert_numeric_columns", convert_numeric_columns(df),
         after_call(convert_numeric_columns_copy, df, convert_numeric_columns_written(df)),
         "filter_required_columns")

FilterRequiredColumns ==
    Step("filter_required_columns", filter_required_columns(df), df, "map_tdi_customers")

MapTdiCustomers ==
    Step("map_tdi_customers", map_tdi_customers(df, args.customer_mapping),
         after_call(map_tdi_customers_copy, df,
                    map_tdi_customers_written(df, args.customer_mapping)),
         "aggregate_customer_data")

AggregateCustomerData ==
    Step("aggregate_customer_data", aggregate_customer_data(df), df,
         "add_competitor_analysis")

AddCompetitorAnalysis ==
    Step("add_competitor_analysis", add_competitor_analysis(df, args.competitor_list),
         after_call(add_competitor_analysis_copy, df,
                    add_competitor_analysis_written(df, args.competitor_list)),
         "validate_data_quality")

\* the summary printed for every table
quality_summary_always(t) == TRUE

\* if not df.empty: validate_data_quality(df)
quality_summary(t) == ~IsEmpty(t)

\* lines 202-208: the summary, or the warning "No data to process after
\* filtering" in its place; return df
ValidateDataQuality ==
    /\ pc = "validate_data_quality"
    /\ trace' = Append(trace, IF quality_summary(df) THEN "validate_data_quality"
                              ELSE "warning_no_data")
    /\ prev' = df
    /\ passed' = df
    /\ err' = NoError
    /\ pc' = "done"
    /\ UNCHANGED <<input, df, args, out>>

\* ----------------------------------------------------------------- inputs
\* the columns of the sales file
RawColumns == <<"date", "sold_to_customer", "soldto_code", "material",
                "material_code", "volume", "nasp", "pp", "margin">>

\* rows of a sales file: well-formed rows of two customers (one under two
\* spellings), an unparseable price, an unmapped customer, a MM.YYYY date, a
\* blank date, a non-numeric volume and a blank net price
RawRowMenu == {
    [date |-> <<"1", "5", ".", "0", "3", ".", "2", "0", "2", "2">>, sold_to_customer |-> "HEADWAY ADVANCED MATERIALS INC", soldto_code |-> <<"7">>,
     material |-> <<"T">>, material_code |-> <<"9">>, volume |-> <<"1", ",", "5">>,
     nasp |-> <<"3", ".", "1">>, pp |-> <<"2", ".", "0", "0", "5">>, margin |-> <<"1">>],
    [date |-> <<"0", "1", ".", "0", "7", ".", "2", "0", "2", "2">>, sold_to_customer |-> "Headway Advanced Materials Inc.", soldto_code |-> <<"7">>,
     material |-> <<"T">>, material_code |-> <<"9">>, volume |-> <<"2", ",", "1", "2", "5">>,
     nasp |-> <<"3", ".", "1">>, pp |-> <<"2", ".", "0", "1", "5">>, margin |-> <<"1">>],
    [date |-> <<"2", "0", ".", "0", "1", ".", "2", "0", "2", "3">>, sold_to_customer |-> "TONG FONG TRADING CO LTD", soldto_code |-> <<"7">>,
     material |-> <<"T">>, material_code |-> <<"9">>, volume |-> <<"4">>,
     nasp |-> <<"3", ".", "1">>, pp |-> <<"a", "b", "c">>, margin |-> <<"1">>],
    [date |-> <<"0", "5", ".", "0", "5", ".", "2", "0", "2", "3">>, sold_to_customer |-> "SOME OTHER CO", soldto_code |-> <<"7">>,
     material |-> <<"T">>, material_code |-> <<"9">>, volume |-> <<"7", ",", "2", "5">>,
     nasp |-> <<"3", ".", "1">>, pp |-> <<"1", ".", "5">>, margin |-> <<"1">>],
    [date |-> <<"0", "3", ".", "2", "0", "2", "2">>, sold_to_customer |-> "HEADWAY ADVANCED MATERIALS INC", soldto_code |-> <<"7">>,
     material |-> <<"T">>, material_code |-> <<"9">>, volume |-> <<"1", ",", "5">>,
     nasp |-> <<"3", ".", "1">>, pp |-> <<"2", ".", "0", "0", "5">>, margin |-> <<"1">>],
    [date |-> <<>>, sold_to_customer |-> "TONG FONG TRADING CO LTD", soldto_code |-> <<"7">>,
     material |-> <<"T">>, material_code |-> <<"9">>, volume |-> <<"3", ",", "5">>,
     nasp |-> <<"3", ".", "1">>, pp |-> <<"1", ".", "2", "5">>, margin |-> <<"1">>],
    [date |-> <<"1", "5", ".", "0", "3", ".", "2", "0", "2", "2">>, sold_to_customer |-> "TONG FONG TRADING CO LTD", soldto_code |-> <<"7">>,
     material |-> <<"T">>, material_code |-> <<"9">>, volume |-> <<"a", "b", "c">>,
     nasp |-> <<"3", ".", "1">>, pp |-> <<"1", ".", "2", "5">>, margin |-> <<"1">>],
    [date |-> <<"1", "5", ".", "0", "3", ".", "2", "0", "2", "2">>, sold_to_customer |-> "Headway Advanced Materials Inc.", soldto_code |-> <<"7">>,
     material |-> <<"T">>, material_code |-> <<"9">>, volume |-> <<"2", ",", "5">>,
     nasp |-> <<>>, pp |-> <<"1", ".", "2", "5">>, margin |-> <<"1">>]}

\* the table with the given rows and without the columns in drop
RawTable(rows, drop) ==
    LET cols == SelectSeq(RawColumns, LAMBDA c : c \notin drop)
    IN  [cols |-> cols,
         rows |-> [i \in DOMAIN rows |-> [c \in Range(cols) |-> rows[i][c]]]]

RawTables ==
    {RawTable(rows, drop) : rows \in SeqsUpTo(RawRowMenu, MaxRows),
                            drop \in {{}} \cup {{c} : c \in Range(RawColumns)}}

Init ==
    /\ pc = "process_dates"
    /\ df \in RawTables
    /\ prev = df
    /\ passed = df
    /\ input = df
    /\ args = [customer_mapping |-> get_default_customer_mapping,
               competitor_list |-> get_default_competitor_list]
    /\ err = NoError
    /\ out = NoFigure
    /\ trace = <<>>

Next ==
    \/ ProcessDates
    \/ ConvertNumericColumns
    \/ FilterRequiredColumns
    \/ MapTdiCustomers
    \/ AggregateCustomerData
    \/ AddCompetitorAnalysis
    \/ ValidateDataQuality

\* explore_data on a loaded sales file
Spec == Init /\ [][Next]_vars

\* The table explore_data returned handed to the Customer Demand chart as the
\* applications configure it for TDI: plot_customer_demand1 with customer
\* column 'customer' and the TDI suppliers, for a customer of the table (or
\* HEADWAY when it names none).
ChartPipelineOutput ==
    /\ pc = "done"
    /\ trace # <<>> /\ Head(trace) = "process_dates"
    /\ \E customer_name \in
            (IF HasCol(df, "tdi_customer") THEN ColumnValues(df, "tdi_customer") ELSE {})
            \cup {"HEADWAY"} :
          LET r == demand_chart("plot_customer_demand1", df,
                       chart_call(customer_name, SUPPLIERS.tdi, <<>>, <<>>, <<>>))
          IN  /\ err' = r.err
              /\ out' = r.out
              /\ pc' = IF r.err = NoError THEN "charted" ELSE "chart_error"
    /\ trace' = Append(trace, "plot_customer_demand1")
    /\ prev' = df
    /\ passed' = df
    /\ UNCHANGED <<input, df, args>>

NextPipelineChart == Next \/ ChartPipelineOutput

\* explore_data, then the chart of its result
SpecPipelineChart == Init /\ [][NextPipelineChart]_vars

\* ---------------------------------------------- inputs of the aggregation
\* a row as map_tdi_customers returns it: the year is missing when the date
\* was blank, the price is missing when it did not parse
MappedRow(year, customer, price, volume) ==
    [year |-> year,
     date_1 |-> IF year = NaN THEN NaN ELSE year * 10000 + 101,
     sold_to_customer |-> IF customer = "HEADWAY" THEN "HEADWAY ADVANCED MATERIALS INC"
                          ELSE "TONG FONG TRADING CO LTD",
     soldto_code |-> <<"7">>, material |-> <<"T">>, material_code |-> <<"9">>,
     volume |-> volume, nasp |-> <<"3", ".", "1">>, pp |-> price,
     tdi_customer |-> customer]

MappedRows ==
    {MappedRow(y, c, p, v) : y \in {2022, 2023, NaN}, c \in {"HEADWAY", "TONG FONG"},
                             p \in {NaN, 2010, 2025}, v \in {1500, 2125}}

MappedTables ==
    {[cols |-> Append(required_columns, "tdi_customer"), rows |-> rows] :
        rows \in SeqsUpTo(MappedRows, MaxAggRows)}

InitAgg ==
    /\ pc = "aggregate_customer_data"
    /\ df \in MappedTables
    /\ prev = df
    /\ passed = df
    /\ input = df
    /\ args = [customer_mapping |-> get_default_customer_mapping,
               competitor_list |-> get_default_competitor_list]
    /\ err = NoError
    /\ out = NoFigure
    /\ trace = <<"process_dates", "convert_numeric_columns", "filter_required_columns",
                 "map_tdi_customers">>

NextAgg ==
    \/ AggregateCustomerData
    \/ AddCompetitorAnalysis
    \/ ValidateDataQuality

\* explore_data from the mapped table on
SpecAgg == InitAgg /\ [][NextAgg]_vars

\* -------------------------------------- inputs of the competitor analysis
\* an aggregated row; basf is the cell of a competitor column the table
\* already carries
AggregatedRows ==
    {[year |-> y, tdi_customer |-> "HEADWAY", pp |-> 2010, volume |-> v, basf |-> b] :
        y \in {2022, 2023}, v \in {0, 1500, 2120}, b \in {0, 700}}

AggregatedTables ==
    {SelectColumns([cols |-> <<>>, rows |-> rows], cols) :
        rows \in SeqsUpTo(AggregatedRows, MaxCompRows),
        cols \in {<<"year", "tdi_customer", "pp", "volume">>,
                  <<"year", "tdi_customer", "pp", "volume", "basf">>}}

CompetitorLists == SeqsUpTo({"basf", "wanhua"}, MaxCompetitors)

InitComp ==
    /\ pc = "add_competitor_analysis"
    /\ df \in AggregatedTables
    /\ prev = df
    /\ passed = df
    /\ input = df
    /\ \E cl \in CompetitorLists :
          args = [customer_mapping |-> get_default_customer_mapping,
                  competitor_list |-> cl]
    /\ err = NoError
    /\ out = NoFigure
    /\ trace = <<"process_dates", "convert_numeric_columns", "filter_required_columns",
                 "map_tdi_customers", "aggregate_customer_data">>

NextComp ==
    \/ AddCompetitorAnalysis
    \/ ValidateDataQuality

\* add_competitor_analysis on an aggregated table
SpecComp == InitComp /\ [][NextComp]_vars

\* --------------------------------------------- inputs of the chart renderers
ChartColumns == <<"customer", "year", "demand", "covestro", "wanhua">>

Reverse(s) == [i \in DOMAIN s |-> s[Len(s) + 1 - i]]

\* rows of three customers, and a row whose customer cell is blank
ChartRows ==
    {[customer |-> k[1], year |-> k[2], demand |-> 300, covestro |-> 100, wanhua |-> 50] :
        k \in {<<"ACME", 2022>>, <<"ACME", 2023>>, <<"BETA", 2022>>, <<"GAMMA", 2023>>,
               <<NoCustomer, 2022>>}}

\* column layouts: the columns in file order lacking up to two of them, and
\* in the opposite order lacking up to one
ChartLayouts ==
    {SelectSeq(ChartColumns, LAMBDA c : c \notin drop) :
        drop \in {d \in SUBSET Range(ChartColumns) : Cardinality(d) <= 2}}
    \cup
    {SelectSeq(Reverse(ChartColumns), LAMBDA c : c \notin drop) :
        drop \in {d \in SUBSET Range(ChartColumns) : Cardinality(d) <= 1}}

ChartTables ==
    {SelectColumns([cols |-> <<>>, rows |-> rows], layout) :
        rows \in SeqsUpTo(ChartRows, MaxChartRows), layout \in ChartLayouts}

ChartArgs ==
    {[customer_name |-> n, customer_column |-> "customer", year_column |-> "year",
      suppliers |-> sup, demand_ylim |-> <<>>, price_columns |-> <<>>,
      annotation_spacing |-> 20, price_ylim |-> <<>>] :
        n \in {"ACME", "BETA", "NOBODY"},
        sup \in {<<"covestro">>, <<"covestro", "wanhua">>, <<"wanhua", "covestro">>}}

InitChart ==
    /\ pc = "render"
    /\ df \in ChartTables
    /\ prev = df
    /\ passed = df
    /\ input = df
    /\ args \in ChartArgs
    /\ err = NoError
    /\ out = NoFigure
    /\ trace = <<>>

NextChart ==
    \/ plot_customer_demand
    \/ plot_customer_demand1
    \/ plot_customer_demand_with_price

\* one call of a demand-chart renderer
SpecChart == InitChart /\ [][NextChart]_vars

\* ------------------------------------------------- inputs of the chart layout
MaxFigureRows == 3

FigureColumns == <<"customer", "year", "demand", "covestro", "wanhua",
                   "pocket price", "apac_pp">>

\* a row of a demand file; prices are in hundredths, a blank cell is NaN
FigureRow(customer, year, covestro, wanhua, demand, pocket, apac) ==
    ("customer" :> customer) @@ ("year" :> year) @@ ("demand" :> demand)
    @@ ("covestro" :> covestro) @@ ("wanhua" :> wanhua)
    @@ ("pocket price" :> pocket) @@ ("apac_pp" :> apac)

\* rows of one customer: two rows of 2022, a blank supplier cell in 2023, a
\* year without volume and without demand, a year whose stack exceeds its
\* demand, 2025 with demand only, a year after 2025, a segment of exactly 5
\* percent, one of exactly 15 percent, a returned volume that cancels the
\* stack, a year before 2022; and a row of another customer
FigureRows == {
    FigureRow("ACME", 2022, 100, 50, 150, 1000, 1050),
    FigureRow("ACME", 2022, 120, 60, 400, 1050, NaN),
    FigureRow("ACME", 2023, NaN, 200, 180, 1000, 1000),
    FigureRow("ACME", 2024, 0, 0, NaN, 1000, 1050),
    FigureRow("ACME", 2024, 130, 70, 100, 1100, 900),
    FigureRow("ACME", 2025, 0, 0, 300, NaN, NaN),
    FigureRow("ACME", 2026, 130, 70, 500, 1100, 900),
    FigureRow("ACME", 2023, 5, 95, 100, 1000, 1000),
    FigureRow("ACME", 2024, 15, 85, 100, 0, 0),
    FigureRow("ACME", 2026, 12, 0 - 12, 7, 1100, 1100),
    FigureRow("ACME", 2021, 40, 20, 90, 950, 950),
    FigureRow("BETA", 2022, 10, 20, 30, 1000, 1050)}

FigureTables ==
    {[cols |-> FigureColumns, rows |-> rows] : rows \in SeqsUpTo(FigureRows, MaxFigureRows)}

FigureArg(customer_name, suppliers, demand_ylim, price_columns, annotation_spacing,
          price_ylim) ==
    [customer_name |-> customer_name, customer_column |-> "customer",
     year_column |-> "year", suppliers |-> suppliers, demand_ylim |-> demand_ylim,
     price_columns |-> price_columns, annotation_spacing |-> annotation_spacing,
     price_ylim |-> price_ylim]

\* calls with and without an override of either axis (price limits in
\* hundredths), with the suppliers and the price columns in both orders, with
\* a price column the table lacks, with zero spacing, and for a customer the
\* table may not hold
FigureArgs == {
    FigureArg("ACME", <<"covestro", "wanhua">>, <<>>, <<"pocket price", "apac_pp">>, 20, <<>>),
    FigureArg("ACME", <<"wanhua", "covestro">>, <<0, 700>>, <<"apac_pp", "pocket price">>, 20,
              <<50, 1500>>),
    FigureArg("ACME", <<"covestro">>, <<>>, <<"pocket price", "seap_pp", "apac_pp">>, 25, <<>>),
    FigureArg("ACME", <<"covestro", "wanhua">>, <<>>, <<>>, 20, <<>>),
    FigureArg("ACME", <<"covestro", "wanhua">>, <<>>, <<"pocket price", "apac_pp">>, 0,
              <<50, 1500>>),
    FigureArg("BETA", <<"covestro", "wanhua">>, <<0, 50>>, <<"pocket price">>, 20, <<>>),
    FigureArg("NOBODY", <<"covestro">>, <<>>, <<>>, 20, <<>>)}

InitFigure ==
    /\ pc = "render"
    /\ df \in FigureTables
    /\ prev = df
    /\ passed = df
    /\ input = df
    /\ args \in FigureArgs
    /\ err = NoError
    /\ out = NoFigure
    /\ trace = <<>>

\* one call of a demand-chart renderer on a table that has every column
SpecFigure == InitFigure /\ [][NextChart]_vars

\* ------------------------------------------------ inputs with blank year cells
MaxYearRows == 2

\* rows of a demand file, two of them with a blank year cell
YearRows == {
    FigureRow("ACME", 2022, 100, 50, 150, 1000, 1050),
    FigureRow("ACME", 2025, 0, 0, 300, NaN, NaN),
    FigureRow("ACME", NaN, 120, 60, 400, 1050, 1000),
    FigureRow("ACME", NaN, 10, 20, 30, 1000, 1000),
    FigureRow("BETA", NaN, 10, 20, 30, 1000, 1050),
    FigureRow("BETA", 2023, 10, 20, 30, 1000, 1050)}

YearTables ==
    {[cols |-> FigureColumns, rows |-> rows] : rows \in SeqsUpTo(YearRows, MaxYearRows)}

InitYearCells ==
    /\ pc = "render"
    /\ df \in YearTables
    /\ prev = df
    /\ passed = df
    /\ input = df
    /\ args \in {FigureArg(n, sup, <<>>, <<"pocket price">>, 20, <<>>) :
                    n \in {"ACME", "BETA", "NOBODY"},
                    sup \in {<<"covestro">>, <<"covestro", "wanhua">>}}
    /\ err = NoError
    /\ out = NoFigure
    /\ trace = <<>>

InitValidation == InitChart \/ InitYearCells

\* one call of a demand-chart renderer on a table that may lack columns or
\* year cells
SpecValidation == InitValidation /\ [][NextChart]_vars

\* ------------------------------------------------ inputs of the business plan
MaxPlanRows == 2

PlanColumns == <<"year", "customer", "min", "base", "max">>

\* rows of a business plan: a dominant base, three large segments, a blank
\* cell with a segment of exactly 50, segments above 50 but below 5 percent,
\* a negative total; and a row of another customer
PlanRows == {
    [year |-> 2023, customer |-> "ACME", min |-> 10, base |-> 600, max |-> 5],
    [year |-> 2024, customer |-> "ACME", min |-> 100, base |-> 200, max |-> 300],
    [year |-> 2025, customer |-> "ACME", min |-> NaN, base |-> 51, max |-> 50],
    [year |-> 2026, customer |-> "ACME", min |-> 60, base |-> 2000, max |-> 101],
    [year |-> 2027, customer |-> "ACME", min |-> 0 - 1000, base |-> 60, max |-> 0],
    [year |-> 2023, customer |-> "BETA", min |-> 0, base |-> 0, max |-> 0]}

\* the columns of the file, or the file without one of three of them
PlanLayouts ==
    {SelectSeq(PlanColumns, LAMBDA c : c \notin drop) :
        drop \in {{}, {"customer"}, {"year"}, {"max"}}}

PlanTables ==
    {SelectColumns([cols |-> <<>>, rows |-> rows], layout) :
        rows \in SeqsUpTo(PlanRows, MaxPlanRows), layout \in PlanLayouts}

PlanArgs ==
    {[customer_name |-> n, show_percentages |-> p] :
        n \in {"ACME", "BETA", "NOBODY"}, p \in BOOLEAN}

InitPlan ==
    /\ pc = "render_plan"
    /\ df \in PlanTables
    /\ prev = df
    /\ passed = df
    /\ input = df
    /\ args \in PlanArgs
    /\ err = NoError
    /\ out = NoFigure
    /\ trace = <<>>

NextPlan == plot_customer_business_plan

\* one call of plot_customer_business_plan
SpecPlan == InitPlan /\ [][NextPlan]_vars

\* one call of a renderer: a demand chart or the business plan
InitRenderers == InitChart \/ InitPlan

NextRenderers == NextChart \/ NextPlan

SpecRenderers == InitRenderers /\ [][NextRenderers]_vars

\* ------------------------------------------------ inputs of the applications
MaxUIRows == 2

UIColumns == <<"customer", "year", "demand">> \o SUPPLIERS.tdi \o <<"pocket price", "apac_pp">>

\* a row of a TDI demand file; every row carries a demand
UIRow(customer, year, demand, covestro, wanhua) ==
    [c \in Range(UIColumns) |->
        CASE c = "customer" -> customer
          [] c = "year" -> year
          [] c = "demand" -> demand
          [] c = "covestro" -> covestro
          [] c = "wanhua" -> wanhua
          [] c = "pocket price" -> 1000
          [] c = "apac_pp" -> 1050
          [] OTHER -> 0]

UIRows == {UIRow("ACME", 2022, 200, 100, 50), UIRow("ACME", 2025, 300, 0, 0),
           UIRow(NoCustomer, 2022, 100, 10, 20)}

\* a demand file as uploaded: complete, or lacking one column
UITables ==
    {SelectColumns([cols |-> <<>>, rows |-> rows],
                   SelectSeq(UIColumns, LAMBDA c : c \notin drop)) :
        rows \in SeqsUpTo(UIRows, MaxUIRows),
        drop \in {{}, {"customer"}, {"year"}, {"demand"}, {"wanhua"}, {"pocket price"}}}

InitUI ==
    /\ pc = "request"
    /\ df \in UITables \cup PlanTables
    /\ prev = df
    /\ passed = df
    /\ input = df
    /\ args \in {[chart_type |-> c, material |-> m] :
                    c \in {"Customer Demand", "Account price vs Volume", "Business plan"},
                    m \in {"TDI", "MDI"}}
    /\ err = NoError
    /\ out = NoFigure
    /\ trace = <<>>

NextUI ==
    \/ AppMain
    \/ Visual_customer_demand
    \/ Visual_account_price_volume
    \/ Visual_business_plan

\* one render request to app.py or to app1.py on loaded or uploaded files
SpecUI == InitUI /\ [][NextUI]_vars

\* Demand files with the three price columns, prices in hundredths: a row
\* whose regional prices are near the pocket price; one whose apac_pp is far
\* above it; one with prices below one half and no seap_pp; one with a low
\* pocket price only; and a row of a second customer with higher prices.
\* covestro is at most demand in every row.
MaxPriceRows == 2

PriceColumns == UIColumns \o <<"seap_pp">>

PriceRow(customer, year, demand, covestro, pocket_price, apac_pp, seap_pp) ==
    [c \in Range(PriceColumns) |->
        CASE c = "customer" -> customer
          [] c = "year" -> year
          [] c = "demand" -> demand
          [] c = "covestro" -> covestro
          [] c = "pocket price" -> pocket_price
          [] c = "apac_pp" -> apac_pp
          [] c = "seap_pp" -> seap_pp
          [] OTHER -> 0]

PriceRows == {PriceRow("ACME", 2022, 200, 100, 1000, 1050, 980),
              PriceRow("ACME", 2023, 150, 80, 1000, 1600, 900),
              PriceRow("ACME", 2024, 100, 60, 40, 45, NaN),
              PriceRow("ACME", 2025, 300, 300, 600, 1000, 300),
              PriceRow("BETA", 2022, 400, 100, 2000, 2100, 1900)}

PriceTables ==
    {[cols |-> PriceColumns, rows |-> rows] : rows \in SeqsUpTo(PriceRows, MaxPriceRows)}

InitPrices ==
    /\ pc = "request"
    /\ df \in PriceTables
    /\ prev = df
    /\ passed = df
    /\ input = df
    /\ args \in {[chart_type |-> "Account price vs Volume", material |-> m] :
                    m \in {"TDI", "MDI"}}
    /\ err = NoError
    /\ out = NoFigure
    /\ trace = <<>>

NextPrices ==
    \/ AppMain
    \/ Visual_account_price_volume

\* one request of the chart 'Account price vs Volume' to app.py or to app1.py
SpecPrices == InitPrices /\ [][NextPrices]_vars

\* ------------------------------------------------ inputs of the data source
\* a demand file and a business plan of one customer
DemandFile(customer) == [cols |-> UIColumns, rows |-> <<UIRow(customer, 2022, 200, 100, 50)>>]

PlanFile(customer) ==
    [cols |-> PlanColumns,
     rows |-> <<[year |-> 2023, customer |-> customer, min |-> 100, base |-> 200,
                 max |-> 300]>>]

\* Config.DEFAULT_PATHS: the content of the default files
DEFAULT_PATHS ==
    [mdi |-> DemandFile("ACME"), mdi_bp |-> PlanFile("ACME"),
     tdi |-> DemandFile("BETA"), tdi_bp |-> PlanFile("BETA"),
     tw_tdi_bp |-> PlanFile("TONG FONG"), tw_tdi |-> DemandFile("TONG FONG")]

\* the files a user uploads: of another customer, or without rows
UploadedFiles ==
    {[mdi |-> DemandFile(c), mdi_bp |-> PlanFile(c),
      tdi |-> DemandFile(c), tdi_bp |-> PlanFile(c)] : c \in {"GAMMA", "HEADWAY"}}
    \cup
    {[mdi |-> [cols |-> UIColumns, rows |-> <<>>], mdi_bp |-> PlanFile("GAMMA"),
      tdi |-> [cols |-> UIColumns, rows |-> <<>>], tdi_bp |-> PlanFile("GAMMA")]}

\* the start of a session: the default files and the files the user has
\* ready to upload (input), and the choices made in the sidebar (args)
InitUpload ==
    /\ pc = "load"
    /\ input \in {[files |-> DEFAULT_PATHS, uploaded |-> u] : u \in UploadedFiles}
    /\ df = EmptyDataFrame
    /\ prev = df
    /\ passed = df
    /\ args \in {[country |-> n, chart_type |-> c, material |-> m, data_source |-> d,
                   upload |-> u] :
                    n \in {"Vietnam", "Taiwan"},
                    c \in {"Customer Demand", "Account price vs Volume", "Business plan"},
                    m \in {"TDI", "MDI"},
                    d \in {"Default Files", "Upload New Files"},
                    u \in [{"mdi", "mdi_bp", "tdi", "tdi_bp"} -> {"none", "csv", "bad"}]}
    /\ err = NoError
    /\ out = NoFigure
    /\ trace = <<>>

NextUpload == AppLoad \/ App1Load

\* the start of app.py or of app1.py up to the table it displays
SpecUpload == InitUpload /\ [][NextUpload]_vars

\* explore_data on a sales file, or one call of a demand-chart renderer
InitCalls == Init \/ InitChart

NextCalls == Next \/ NextChart

SpecCalls == InitCalls /\ [][NextCalls]_vars

\* explore_data on a sales file, or one call of any renderer
InitTransforms == InitCalls \/ InitPlan

NextTransforms == NextCalls \/ NextPlan

SpecTransforms == InitTransforms /\ [][NextTransforms]_vars

\* ------------------------------------------------------------------ claims
Rendered == pc \in {"done", "error"} /\ trace # <<>> /\ Head(trace) \in
    {"plot_customer_demand", "plot_customer_demand1", "plot_customer_demand_with_price"}

\* the required columns of a renderer call that the table lacks
AbsentRequired ==
    ({args.customer_column, args.year_column, "demand"} \cup Range(args.suppliers))
        \ Range(input.cols)

\* C1: a demand-chart renderer raises the missing-column error exactly when
\* the table lacks a required column (customer column, year column, 'demand',
\* a supplier), whatever the order of the table's columns, and the error names
\* the absent required columns and no other name.
C1_MissingColumnsNamed ==
    Rendered =>
        /\ (err.kind = "MissingColumns") <=> (AbsentRequired # {})
        /\ err.kind = "MissingColumns" => Range(err.names) = AbsentRequired

\* C1 witness: a call on a table that lacks two required columns
C1_Witness ==
    /\ Rendered
    /\ err.kind = "MissingColumns"
    /\ Range(err.names) = {"demand", "wanhua"}

\* C2 (as claimed): with all required columns present and a requested customer
\* that is no value of the customer column, the renderer raises the
\* customer-not-found error carrying the distinct values of the customer
\* column, each once, in ascending order, and returns no figure.
C2_CustomerNotFoundList ==
    (Rendered /\ AbsentRequired = {}
        /\ args.customer_name \notin ColumnValues(input, args.customer_column)) =>
        /\ err.kind = "CustomerNotFound"
        /\ Range(err.names) = ColumnValues(input, args.customer_column)
        /\ \A i, j \in DOMAIN err.names : i < j => StrLess(err.names[i], err.names[j])
        /\ out = NoFigure

\* the steps of explore_data that derive data from the table
DerivingSteps == {"process_dates", "convert_numeric_columns", "map_tdi_customers",
                  "aggregate_customer_data", "add_competitor_analysis"}

\* C3 (as claimed): no parsing, filtering or aggregation step runs before the
\* required-column check of the call: in explore_data every deriving step in
\* the trace comes after filter_required_columns, in a renderer every step
\* comes after check_columns.
C3_ValidationFirst_Original ==
    \A i \in DOMAIN trace :
        /\ trace[i] \in DerivingSteps =>
              \E j \in 1..(i - 1) : trace[j] = "filter_required_columns"
        /\ trace[i] \in {"check_customer", "filter_customer", "sort_values", "years",
                         "subplots"} =>
              \E j \in 1..(i - 1) : trace[j] = "check_columns"

\* the columns of the sales file that the table of the call lacks
AbsentRaw == Range(RawColumns) \ Range(input.cols)

InPipeline == trace = <<>> \/ Head(trace) = "process_dates"

\* C3 (amended): in a renderer the column check is the first step and a table
\* lacking a required column is rejected by it with nothing else executed.
\* explore_data parses dates and numbers before filter_required_columns; a
\* table lacking a column of the sales file is rejected by the first step that
\* reads that column, never later than filter_required_columns, so mapping,
\* aggregation and competitor analysis never run on it, and no step after
\* filter_required_columns raises a missing-column error.
C3_ValidationBeforeAggregation ==
    /\ Rendered =>
          /\ trace[2] = "check_columns"
          /\ AbsentRequired # {} => (Len(trace) = 2 /\ err.kind = "MissingColumns")
    /\ (InPipeline /\ pc # "render") =>
          /\ AbsentRaw # {} =>
                /\ pc \in {"process_dates", "convert_numeric_columns",
                           "filter_required_columns", "error"}
                /\ Range(trace) \subseteq {"process_dates", "convert_numeric_columns",
                                           "filter_required_columns"}
          /\ err.kind = "KeyError" =>
                /\ trace[Len(trace)] \in {"process_dates", "convert_numeric_columns",
                                          "filter_required_columns"}
                /\ Range(err.names) \subseteq AbsentRaw

\* C3 witness: a sales file without the net price column had its dates and
\* numbers parsed and was then rejected by filter_required_columns
C3_Witness ==
    /\ trace = <<"process_dates", "convert_numeric_columns", "filter_required_columns">>
    /\ pc = "error"
    /\ err = [kind |-> "KeyError", names |-> <<"nasp">>]
    /\ Len(input.rows) > 0

\* add_competitor_analysis has returned
Analysed == pc = "validate_data_quality" /\ trace[Len(trace)] = "add_competitor_analysis"

\* C4: every record returned by add_competitor_analysis for a non-empty table
\* has demand = volume + the sum of its competitor fields, hence
\* demand >= volume when the competitor fields are non-negative.
C4_DemandIsVolumePlusCompetitors ==
    (Analysed /\ ~IsEmpty(prev)) =>
        \A i \in DOMAIN df.rows :
            LET r == df.rows[i]
                competitors == [k \in DOMAIN args.competitor_list |->
                                   r[args.competitor_list[k]]]
            IN  /\ r["demand"] = r["volume"] + SumSeq(competitors)
                /\ (\A k \in DOMAIN competitors : competitors[k] >= 0) =>
                       r["demand"] >= r["volume"]

\* C4 witness: two records with a positive volume and two competitors
C4_Witness ==
    /\ Analysed
    /\ Len(df.rows) = 2
    /\ Len(args.competitor_list) = 2
    /\ \A i \in DOMAIN df.rows : df.rows[i]["volume"] > 0 /\ df.rows[i]["demand"] > 0

\* C5 (as claimed): a competitor column that the input table already carries
\* keeps, in every record, its input value, and demand counts that value.
C5_ExistingCompetitorKept ==
    (Analysed /\ ~IsEmpty(prev)) =>
        \A k \in DOMAIN args.competitor_list :
            LET c == args.competitor_list[k]
            IN  HasCol(prev, c) =>
                    \A i \in DOMAIN df.rows :
                        /\ df.rows[i][c] = prev.rows[i][c]
                        /\ df.rows[i]["demand"] >= prev.rows[i]["volume"] + prev.rows[i][c]

\* C6 (as claimed): for every input table, one with zero rows included, the
\* returned table has the columns year, customer, price, demand, volume and
\* then the competitors in the order of the list.
C6_ColumnOrder_Original ==
    Analysed =>
        df.cols = <<"year", "tdi_customer", "pp", "demand", "volume">>
                      \o args.competitor_list

\* C6 (amended): for a table with at least one row the returned table has the
\* columns year, customer, price, demand, volume and then the competitors in
\* the order of the list; a table with zero rows is returned as it is, with
\* the columns it came with.
C6_ColumnOrder ==
    Analysed =>
        IF Len(prev.rows) > 0
        THEN df.cols = <<"year", "tdi_customer", "pp", "demand", "volume">>
                           \o args.competitor_list
        ELSE df = prev

\* C6 witness: a non-empty table analysed with the competitors wanhua, basf
C6_Witness ==
    /\ Analysed
    /\ Len(df.rows) > 0
    /\ args.competitor_list = <<"wanhua", "basf">>
    /\ df.cols = <<"year", "tdi_customer", "pp", "demand", "volume", "wanhua", "basf">>

\* aggregate_customer_data has returned
Aggregated == pc = "add_competitor_analysis" /\ trace[Len(trace)] = "aggregate_customer_data"

\* the (year, mapped customer) pairs of the rows of a table
Pairs(t) == {<<t.rows[i]["year"], t.rows[i]["tdi_customer"]>> : i \in DOMAIN t.rows}

RowsOfPair(t, k) ==
    SelectSeq(t.rows, LAMBDA r : r["year"] = k[1] /\ r["tdi_customer"] = k[2])

\* C7 (as claimed): for a non-empty mapped table aggregate_customer_data
\* returns exactly one row per (year, mapped customer) pair of the input, with
\* the mean of the pair's non-missing prices and the sum of its volumes, both
\* rounded to 2 decimals; no pair is lost and none is invented.
C7_OneRowPerPair ==
    (Aggregated /\ ~IsEmpty(prev)) =>
        /\ Pairs(df) = Pairs(prev)
        /\ Len(df.rows) = Cardinality(Pairs(prev))
        /\ \A i \in DOMAIN df.rows :
              LET k == <<df.rows[i]["year"], df.rows[i]["tdi_customer"]>>
              IN  /\ df.rows[i]["pp"] = MeanRounded(RowsOfPair(prev, k), "pp")
                  /\ df.rows[i]["volume"] = SumRounded(RowsOfPair(prev, k), "volume")

\* a value with at most 2 decimals, or a missing value
IsRounded(v) == v = NaN \/ v % 10 = 0

\* at most one row per (year, customer), both present, and rounded values
AlreadyAggregated(t) ==
    /\ Cardinality(Pairs(t)) = Len(t.rows)
    /\ \A i \in DOMAIN t.rows :
          /\ t.rows[i]["year"] # NaN
          /\ IsRounded(t.rows[i]["pp"])
          /\ IsRounded(t.rows[i]["volume"])

KeyAndValues(r) == <<r["year"], r["tdi_customer"], r["pp"], r["volume"]>>

\* C8: aggregation is idempotent: aggregating the table that
\* aggregate_customer_data returned gives that table again, and a table that
\* already has one row per (year, customer) and rounded values comes back with
\* the same rows and values.
C8_AggregationIdempotent ==
    Aggregated =>
        /\ aggregate_customer_data(df) = Ok(df)
        /\ AlreadyAggregated(prev) =>
              /\ Len(df.rows) = Len(prev.rows)
              /\ {KeyAndValues(df.rows[i]) : i \in DOMAIN df.rows}
                    = {KeyAndValues(prev.rows[i]) : i \in DOMAIN prev.rows}

\* C8 witness: two rows of one pair were merged into one row whose price was
\* rounded (mean of 2.01 and 2.025 is 2.0175, rounded 2.02)
C8_Witness ==
    /\ Aggregated
    /\ Len(prev.rows) = 2
    /\ Len(df.rows) = 1
    /\ df.rows[1]["pp"] = 2020
    /\ df.rows[1]["volume"] = 3620

\* map_tdi_customers has returned
Mapped == pc = "aggregate_customer_data" /\ trace[Len(trace)] = "map_tdi_customers"

IsMapped(r) == r["sold_to_customer"] \in DOMAIN args.customer_mapping

\* C9: map_tdi_customers keeps exactly the rows whose raw customer name is a
\* key of the mapping, in their order, each tagged with its canonical id; rows
\* with another name are dropped, no error is raised for them, and every
\* customer of an aggregate is the id of a mapped row of the file.
C9_UnmappedDropped ==
    /\ Mapped =>
          LET kept == SelectSeq(prev.rows, IsMapped)
          IN  /\ Len(df.rows) = Len(kept)
              /\ \A i \in DOMAIN kept :
                    /\ \A c \in DOMAIN kept[i] : df.rows[i][c] = kept[i][c]
                    /\ df.rows[i]["tdi_customer"] =
                           args.customer_mapping[kept[i]["sold_to_customer"]]
    /\ (InPipeline /\ pc = "error") => trace[Len(trace)] # "map_tdi_customers"
    /\ (InPipeline /\ pc \in {"add_competitor_analysis", "validate_data_quality", "done"}) =>
          \A i \in DOMAIN df.rows :
              \E j \in DOMAIN input.rows :
                  /\ IsMapped(input.rows[j])
                  /\ df.rows[i]["tdi_customer"] =
                         args.customer_mapping[input.rows[j]["sold_to_customer"]]

\* C9 witness: of two rows the one with an unmapped name was dropped and the
\* other, under the second spelling of its customer, was tagged HEADWAY
C9_Witness ==
    /\ Mapped
    /\ Len(prev.rows) = 2
    /\ Len(df.rows) = 1
    /\ df.rows[1]["sold_to_customer"] = "Headway Advanced Materials Inc."
    /\ df.rows[1]["tdi_customer"] = "HEADWAY"

\* C10 (as claimed): if the date of any row does not match DD.MM.YYYY,
\* process_dates fails with the format error and returns no table; when it
\* succeeds the output has the rows of the input and the year of each row is
\* the year component of its date.
C10_StrictDates ==
    (trace = <<"process_dates">> /\ HasCol(input, "date")) =>
        /\ (\E i \in DOMAIN input.rows : ~MatchesDMY(input.rows[i]["date"])) =>
              (pc = "error" /\ err.kind = "DateFormatError")
        /\ pc # "error" =>
              /\ Len(df.rows) = Len(input.rows)
              /\ \A i \in DOMAIN df.rows :
                    df.rows[i]["year"] = DecVal(Split(df.rows[i]["date"], ".")[3])

\* convert_numeric_columns has run on a table that has the three columns
Converted ==
    /\ trace # <<>>
    /\ trace[Len(trace)] = "convert_numeric_columns"
    /\ {"pp", "margin", "volume"} \subseteq Range(prev.cols)

\* digits, a comma, digits
IsCommaDecimal(s) ==
    LET parts == Split(s, ",")
    IN  Len(parts) = 2 /\ AllDigits(parts[1]) /\ AllDigits(parts[2])

\* the number a comma-decimal text writes, in thousandths
CommaDecimalVal(s) ==
    LET parts == Split(s, ",")
    IN  DecVal(parts[1]) * 1000 + DecVal(SubSeq(parts[2] \o <<"0", "0", "0">>, 1, 3))

\* a text that is no number once its commas are dots
StillNonNumeric(s) ==
    s # <<>> /\ ~IsNumber([i \in DOMAIN s |-> IF s[i] = "," THEN "." ELSE s[i]])

\* C11: convert_numeric_columns turns every comma-decimal volume text into the
\* number it writes ("1,5" becomes 1.5); it fails with the format error when
\* the volume of any row is no number after its commas were replaced by dots;
\* a table with a comma-decimal volume and no such row is converted whatever
\* its prices are, and a price that does not parse becomes a missing value.
C11_VolumeStrictPriceLenient ==
    Converted =>
        LET vol(i) == prev.rows[i]["volume"]
        IN  /\ (\E i \in DOMAIN prev.rows : StillNonNumeric(vol(i))) =>
                  (pc = "error" /\ err.kind = "VolumeFormatError")
            /\ ((\E i \in DOMAIN prev.rows : IsCommaDecimal(vol(i)))
                    /\ \A i \in DOMAIN prev.rows : ~StillNonNumeric(vol(i))) =>
                  pc = "filter_required_columns"
            /\ pc = "filter_required_columns" =>
                  \A i \in DOMAIN prev.rows :
                      /\ IsCommaDecimal(vol(i)) =>
                             df.rows[i]["volume"] = CommaDecimalVal(vol(i))
                      /\ df.rows[i]["pp"] =
                             IF IsNumber(prev.rows[i]["pp"])
                             THEN NumberVal(prev.rows[i]["pp"]) ELSE NaN

\* C11 witness: a table with the volume "1,5" and the price "abc" was
\* converted: the volume is 1.5 and the price is missing
C11_Witness ==
    /\ Converted
    /\ pc = "filter_required_columns"
    /\ \E i \in DOMAIN prev.rows :
          /\ prev.rows[i]["volume"] = <<"1", ",", "5">>
          /\ df.rows[i]["volume"] = 1500
    /\ \E i \in DOMAIN prev.rows :
          /\ prev.rows[i]["pp"] = <<"a", "b", "c">>
          /\ df.rows[i]["pp"] = NaN

\* a demand-chart renderer has returned its figure
Drawn == Rendered /\ pc = "done"

\* the rows of the requested customer in the table of the call
CustomerRows ==
    SelectSeq(input.rows, LAMBDA r : r[args.customer_column] = args.customer_name)

CustomerYears == {CustomerRows[i][args.year_column] : i \in DOMAIN CustomerRows}

\* the series has one position per year of the axis and position i holds the
\* cell of column col in a row of the customer for the i-th year
AlignedWithYears(series, col) ==
    /\ Len(series) = Cardinality(CustomerYears)
    /\ \A i \in DOMAIN series :
          \E k \in DOMAIN CustomerRows :
              /\ CustomerRows[k][args.year_column] = out.years[i]
              /\ CustomerRows[k][col] = series[i]

MaxOf(S) == IF S = {} THEN 0 ELSE CHOOSE m \in S : \A v \in S : v <= m

\* the demand overlay of year i of a figure: the demand where a marker is
\* drawn, nothing elsewhere
OverlayValue(i) ==
    IF out.years[i] \in out.outline \cup out.forecast THEN out.demand_values[i] ELSE 0

\* C13 (as claimed): the limits of the demand axis are the demand_ylim of the
\* caller when one is given; otherwise the lower limit is 0 and the upper
\* limit is 1.1 times the largest, over the years, of the stack total of the
\* year (the sum of its supplier cells) and its demand overlay.
C13_DemandAxisLimits ==
    Drawn =>
        IF args.demand_ylim # <<>>
        THEN out.ylim = <<10 * args.demand_ylim[1], 10 * args.demand_ylim[2]>>
        ELSE out.ylim = <<0, 11 * MaxOf({out.total_height[i] : i \in DOMAIN out.years}
                                       \cup {OverlayValue(i) : i \in DOMAIN out.years})>>

\* C14 (as claimed): the heavy-outline marker is drawn at the most recent year
\* of the customer's data, whatever that year is (given that the demand of
\* that year is present).  The other half of the claim, thin markers for the
\* years the caller specifies, has no counterpart to state: no argument of the
\* renderers names years.
C14_ForecastAtLastYear_Original ==
    (Drawn /\ out.demand_values[Len(out.years)] # NaN) =>
        out.forecast = {out.years[Len(out.years)]}

\* C14 (amended): the years of the markers are fixed in the code and the
\* caller cannot choose them.  The thin outline is drawn at exactly those of
\* the years 2022, 2023 and 2024 of the customer whose demand is present and
\* positive; the heavy outline is drawn at 2025 exactly when 2025 is a year of
\* the customer and its demand is present, and at no other year, also when
\* the customer has a later year.
C14_MarkersAtFixedYears ==
    Drawn =>
        /\ out.outline = {out.years[i] : i \in {k \in DOMAIN out.years :
                              /\ out.years[k] \in {2022, 2023, 2024}
                              /\ out.demand_values[k] # NaN
                              /\ out.demand_values[k] > 0}}
        /\ out.forecast \subseteq {2025}
        /\ 2025 \in out.forecast <=>
              \E i \in DOMAIN out.years :
                  out.years[i] = 2025 /\ out.demand_values[i] # NaN

\* C14 witness: a customer with the years 2022, 2025 and 2026 has the thin
\* outline at 2022 and the heavy outline at 2025, not at 2026
C14_Witness ==
    /\ Drawn
    /\ out.years = <<2022, 2025, 2026>>
    /\ out.outline = {2022}
    /\ out.forecast = {2025}

\* plot_customer_demand_with_price has returned its figure
DrawnWithPrice == Drawn /\ Head(trace) = "plot_customer_demand_with_price"

\* the price series that have a value at year i of the figure
PricedAt(i) == {c \in DOMAIN out.prices : out.prices[c][i] # NaN}

\* the number of price series that come before series c at year i: those with
\* a smaller value, and of those with the same value the ones listed earlier
RankAt(i, c) ==
    Cardinality({d \in PricedAt(i) :
                    \/ out.prices[d][i] < out.prices[c][i]
                    \/ (out.prices[d][i] = out.prices[c][i] /\ d < c)})

\* C15: in plot_customer_demand_with_price, at every year the price series
\* that have a value there are ranked by ascending value and the series of
\* rank r is annotated at the offset 25 + r * annotation_spacing, and only
\* these series are annotated; hence with a positive spacing the offsets of a
\* year are pairwise distinct and grow with the rank, also between two series
\* of equal value.
C15_AnnotationOffsets ==
    DrawnWithPrice =>
        /\ DOMAIN out.offsets =
               {k \in (DOMAIN out.years) \X (DOMAIN out.prices) : k[2] \in PricedAt(k[1])}
        /\ \A i \in DOMAIN out.years :
              \A c \in PricedAt(i) :
                  /\ out.offsets[<<i, c>>] = 25 + RankAt(i, c) * args.annotation_spacing
                  /\ args.annotation_spacing > 0 =>
                        \A d \in PricedAt(i) \ {c} :
                            /\ out.offsets[<<i, d>>] # out.offsets[<<i, c>>]
                            /\ out.prices[d][i] < out.prices[c][i] =>
                                   out.offsets[<<i, d>>] < out.offsets[<<i, c>>]

\* C15 witness: with spacing 20 the prices 10.0 and 10.5 of one year are
\* annotated at 25 and 45, and so are two equal prices of another year
C15_Witness ==
    /\ DrawnWithPrice
    /\ args.annotation_spacing = 20
    /\ Len(out.prices) = 2
    /\ \E i \in DOMAIN out.years :
          /\ out.prices[1][i] = 1000 /\ out.prices[2][i] = 1050
          /\ out.offsets[<<i, 1>>] = 25 /\ out.offsets[<<i, 2>>] = 45
    /\ \E i \in DOMAIN out.years :
          /\ out.prices[1][i] = 1000 /\ out.prices[2][i] = 1000
          /\ out.offsets[<<i, 1>>] = 25 /\ out.offsets[<<i, 2>>] = 45

\* the sum of a sequence of floats: missing when a term is missing
RECURSIVE FloatSum(_)
FloatSum(s) == IF s = <<>> THEN 0 ELSE NanAdd(Head(s), FloatSum(Tail(s)))

\* C20 (as claimed): in the stacked-bar loop the offset under the segment of
\* supplier j is, at every year, the sum of the heights of the suppliers
\* before it in the caller's order; after the last supplier the accumulated
\* offset of a year equals the stack total of the year, the sum of the
\* supplier cells of its row, which the label threshold uses.
C20_StackOffsets ==
    Drawn =>
        \A i \in DOMAIN out.years :
            /\ \A j \in DOMAIN out.values :
                  out.bottoms[j][i] =
                      FloatSum([k \in 1..(j - 1) |-> out.values[k][i]])
            /\ out.top[i] = out.total_height[i]

\* plot_customer_business_plan has returned a figure
PlanDrawn == pc = "done" /\ trace = <<"plot_customer_business_plan">> /\ out.kind = "plan"

\* the label a segment of value val must carry in a year of total total
LabelledAsClaimed(label, val, total) ==
    /\ label.shown <=> (val > 50 /\ 20 * val > total)
    /\ label.shown =>
          IF args.show_percentages /\ total > 0
          THEN /\ label.kind = "percent"
               /\ 2 * (label.number * total - 1000 * val) <= total
               /\ 2 * (1000 * val - label.number * total) <= total
          ELSE label.kind = "value" /\ label.number = val

\* C16: in plot_customer_business_plan there is one bar per row of the
\* customer, with missing values drawn as 0, and in every bar a min, base or
\* max segment is labelled if and only if its value is strictly greater than
\* max(0.05 * (min + base + max), 50); the label is the value, or, when
\* show_percentages is set and the total is positive, the segment's percentage
\* of the total to one decimal.
C16_SegmentLabels ==
    PlanDrawn =>
        /\ Len(out.bars) =
               Len(SelectSeq(input.rows, LAMBDA r : r["customer"] = args.customer_name))
        /\ \A i \in DOMAIN out.bars :
              LET b == out.bars[i]
                  total == b.min + b.base + b.max
              IN  /\ \E k \in DOMAIN input.rows :
                        /\ input.rows[k]["customer"] = args.customer_name
                        /\ input.rows[k]["year"] = b.year
                        /\ \A c \in {"min", "base", "max"} :
                              b[c] = IF input.rows[k][c] = NaN THEN 0 ELSE input.rows[k][c]
                  /\ LabelledAsClaimed(b.min_label, b.min, total)
                  /\ LabelledAsClaimed(b.base_label, b.base, total)
                  /\ LabelledAsClaimed(b.max_label, b.max, total)

\* C16 witness: the bar min=10, base=600, max=5 drawn with values has a
\* label on its base only, 600; and the bar of a second year whose max
\* segment is exactly 50 has no label on it
C16_Witness ==
    /\ PlanDrawn
    /\ ~args.show_percentages
    /\ \E i \in DOMAIN out.bars :
          /\ out.bars[i].min = 10 /\ out.bars[i].base = 600 /\ out.bars[i].max = 5
          /\ ~out.bars[i].min_label.shown
          /\ out.bars[i].base_label = [shown |-> TRUE, kind |-> "value", number |-> 600]
          /\ ~out.bars[i].max_label.shown
    /\ \E i \in DOMAIN out.bars :
          /\ out.bars[i].max = 50
          /\ ~out.bars[i].max_label.shown
          /\ out.bars[i].base_label.shown

\* the requested customer is no value of the customer column of the table
CustomerAbsent ==
    \A i \in DOMAIN input.rows : input.rows[i]["customer"] # args.customer_name

\* C17: when the requested customer has no row in the business-plan table,
\* plot_customer_business_plan returns without a figure and without raising,
\* also for a table that lacks a value column or the year column; a
\* demand-chart renderer called for a customer that has no row in its table
\* raises an error and returns nothing.
C17_AbsentCustomer ==
    /\ (pc \in {"done", "error"} /\ trace = <<"plot_customer_business_plan">>
            /\ HasCol(input, "customer") /\ CustomerAbsent) =>
          (pc = "done" /\ err = NoError /\ out = NoFigure)
    /\ (Rendered /\ AbsentRequired = {} /\ CustomerAbsent) =>
          (pc = "error" /\ err # NoError /\ out = NoFigure)

\* C17 witness: a business plan with rows of other customers and without its
\* max column was asked for a customer it does not hold, and returned nothing
C17_Witness ==
    /\ pc = "done"
    /\ trace = <<"plot_customer_business_plan">>
    /\ args.customer_name = "NOBODY"
    /\ Len(input.rows) = 2
    /\ ~HasCol(input, "max")
    /\ out = NoFigure
    /\ err = NoError

\* a render request is over
Answered == pc \in {"shown", "message", "uncaught"}

\* C18 (as claimed): every error of a render request, whatever its kind, is
\* caught by the handler of app.py and by the handlers of app1.py and shown
\* as a message; no error leaves the handler.
C18_ErrorsShownAtUI ==
    Answered => (err # NoError => pc = "message")

\* C19: no transform and no renderer changes the table it is passed: after
\* every call of process_dates, convert_numeric_columns,
\* filter_required_columns, map_tdi_customers, aggregate_customer_data,
\* add_competitor_analysis, of a demand-chart renderer or of
\* plot_customer_business_plan, whether it returned or raised, the table the
\* caller passed has the columns, rows and values it had before the call.
C19_InputNotMutated == passed = prev

\* C19 witness: map_tdi_customers returned a table with the customer id column
\* and fewer rows, and the table it was passed has neither change
C19_Witness ==
    /\ Mapped
    /\ HasCol(df, "tdi_customer")
    /\ Len(df.rows) < Len(prev.rows)
    /\ ~HasCol(passed, "tdi_customer")
    /\ Len(passed.rows) = Len(prev.rows)

\* C21: in every demand-chart renderer a segment carries a label only if its
\* value is above 0 and strictly above 5 percent of the total of the supplier
\* cells of its year (a segment of exactly 5 percent has none), and a label
\* is white on black exactly when the value is strictly above 15 percent of
\* that total, black on white otherwise.
C21_ValueLabels ==
    Drawn =>
        \A j \in DOMAIN out.suppliers : \A i \in DOMAIN out.years :
            LET value == out.values[j][i]
                total == out.total_height[i]
                label == out.labels[j][i]
            IN  /\ label.shown => (value # NaN /\ value > 0 /\ 20 * value > total)
                /\ (value # NaN /\ 20 * value = total) => ~label.shown
                /\ (value # NaN /\ value = 0) => ~label.shown
                /\ label.shown => (label.light <=> 100 * value > 15 * total)

\* C21 witness: a chart with a segment of exactly 5 percent left without a
\* label in one year and a segment of exactly 15 percent labelled black on
\* white in another, each beside a segment labelled white on black
C21_Witness ==
    /\ Drawn
    /\ Len(out.suppliers) = 2
    /\ \E i \in DOMAIN out.years :
          /\ out.values[1][i] # NaN /\ out.values[1][i] > 0
          /\ 20 * out.values[1][i] = out.total_height[i]
          /\ ~out.labels[1][i].shown
          /\ out.labels[2][i].shown /\ out.labels[2][i].light
    /\ \E i \in DOMAIN out.years :
          /\ out.values[1][i] # NaN /\ out.values[1][i] > 0
          /\ 100 * out.values[1][i] = 15 * out.total_height[i]
          /\ out.labels[1][i].shown /\ ~out.labels[1][i].light
          /\ out.labels[2][i].shown /\ out.labels[2][i].light

\* the maximum the automatic axis is scaled to
AutoMax == auto_max_demand(out.max_demand)

\* C22: without demand_ylim the ticks are the multiples of ceil(max/10), at
\* least 1, at most 11 of them lie in [0, max], and every tick lies within
\* the axis limits [0, 1.1 * max].
C22_TicksWithinAxis ==
    (Drawn /\ args.demand_ylim = <<>>) =>
        LET step == IF (AutoMax + 9) \div 10 > 1 THEN (AutoMax + 9) \div 10 ELSE 1
        IN  /\ \A k \in DOMAIN out.yticks : out.yticks[k] = (k - 1) * step
            /\ Cardinality({k \in DOMAIN out.yticks : out.yticks[k] <= AutoMax}) <= 11
            /\ \A k \in DOMAIN out.yticks :
                  out.yticks[k] >= 0 /\ 10 * out.yticks[k] <= out.ylim[2]

\* the prices plotted on the secondary axis
PlottedPrices == all_price_values(out.prices)

\* C23: in plot_customer_demand_with_price with at least one price plotted, an
\* explicit price_ylim is used as given; without one, lo and hi being the
\* smallest and largest plotted price, the axis is lo and hi padded by 20
\* percent of hi - lo when hi > lo, lo padded by 20 percent of |lo| when
\* hi = lo # 0, and -20 to 20 when every price is 0; and every plotted price
\* lies strictly inside the automatic limits.
C23_PriceAxis ==
    (DrawnWithPrice /\ PlottedPrices # {}) =>
        LET lo == CHOOSE v \in PlottedPrices : \A w \in PlottedPrices : v <= w
            hi == CHOOSE v \in PlottedPrices : \A w \in PlottedPrices : w <= v
            abs_lo == IF lo < 0 THEN 0 - lo ELSE lo
        IN  IF args.price_ylim # <<>>
            THEN out.price_ylim = <<5 * args.price_ylim[1], 5 * args.price_ylim[2]>>
            ELSE /\ hi > lo => out.price_ylim = <<5 * lo - (hi - lo), 5 * hi + (hi - lo)>>
                 /\ (hi = lo /\ lo # 0) => out.price_ylim = <<5 * lo - abs_lo, 5 * lo + abs_lo>>
                 /\ (hi = 0 /\ lo = 0) => out.price_ylim = <<0 - 10000, 10000>>
                 /\ \A v \in PlottedPrices :
                       out.price_ylim[1] < 5 * v /\ 5 * v < out.price_ylim[2]

\* C23 witness: an automatic price axis around a single price that is not 0
C23_Witness ==
    /\ DrawnWithPrice
    /\ args.price_ylim = <<>>
    /\ Cardinality(PlottedPrices) = 1
    /\ 0 \notin PlottedPrices
    /\ \E v \in PlottedPrices : out.price_ylim = <<4 * v, 6 * v>>

\* the rows of the requested customer in the business plan of the call
PlanCustomerRows == SelectSeq(input.rows, LAMBDA r : r["customer"] = args.customer_name)

ZeroIfMissing(v) == IF v = NaN THEN 0 ELSE v

\* the bar shows the row, missing values as 0
BarOfRow(b, r) ==
    /\ b.year = r["year"]
    /\ b.min = ZeroIfMissing(r["min"])
    /\ b.base = ZeroIfMissing(r["base"])
    /\ b.max = ZeroIfMissing(r["max"])

BarTotal(b) == b.min + b.base + b.max

\* C24: plot_customer_business_plan draws one bar per row of the customer in
\* year order, its segments stacked as min from 0, base from min and max from
\* min + base with missing values counted as 0; the y-axis runs from 0 to
\* 1.15 times the largest total min + base + max, and no stack of
\* non-negative values exceeds it.
C24_PlanStackAndAxis ==
    PlanDrawn =>
        /\ Len(out.bars) = Len(PlanCustomerRows)
        /\ \A r \in Range(PlanCustomerRows) : \E i \in DOMAIN out.bars : BarOfRow(out.bars[i], r)
        /\ \A i \in DOMAIN out.bars : \E r \in Range(PlanCustomerRows) : BarOfRow(out.bars[i], r)
        /\ \A i \in DOMAIN out.bars : \A k \in DOMAIN out.bars :
              i < k => out.bars[i].year <= out.bars[k].year
        /\ \A i \in DOMAIN out.bars :
              /\ out.bars[i].min_bottom = 0
              /\ out.bars[i].base_bottom = out.bars[i].min
              /\ out.bars[i].max_bottom = out.bars[i].min + out.bars[i].base
        /\ out.ylim = <<0, 115 * MaxOf({BarTotal(out.bars[i]) : i \in DOMAIN out.bars})>>
        /\ (\A i \in DOMAIN out.bars :
               out.bars[i].min >= 0 /\ out.bars[i].base >= 0 /\ out.bars[i].max >= 0)
           => \A i \in DOMAIN out.bars : 100 * BarTotal(out.bars[i]) <= out.ylim[2]

\* C24 witness: a plan of two years, the later one with a missing min, given
\* in the file in the opposite order; the axis follows the larger total
C24_Witness ==
    /\ PlanDrawn
    /\ Len(out.bars) = 2
    /\ PlanCustomerRows[1]["year"] > PlanCustomerRows[2]["year"]
    /\ PlanCustomerRows[1]["min"] = NaN
    /\ out.bars[2].min = 0 /\ out.bars[2].base_bottom = 0 /\ out.bars[2].max_bottom > 0
    /\ BarTotal(out.bars[1]) > BarTotal(out.bars[2])
    /\ out.ylim = <<0, 115 * BarTotal(out.bars[1])>>

\* the dataset of the chosen chart and material was uploaded as a readable file
UploadedForChart ==
    /\ pc = "loaded"
    /\ args.country = "Vietnam"
    /\ args.data_source = "Upload New Files"
    /\ args.upload[dataset_key(args.chart_type, args.material)] = "csv"

\* C25: with data source 'Upload New Files' and a CSV uploaded for a dataset,
\* app.py works on the uploaded table of that dataset and not on the table of
\* the default file, as app1.py does.
C25_UploadedTableUsed ==
    UploadedForChart => df = input.uploaded[dataset_key(args.chart_type, args.material)]

\* the result of explore_data was handed to the Customer Demand chart
PipelineOutputCharted == pc \in {"charted", "chart_error"}

\* C26: the table explore_data produces with the default competitor list
\* passes the required-column check of the Customer Demand chart configured
\* for TDI (customer column 'customer', 'year', 'demand', and the suppliers
\* covestro, mcns, wanhua, basf, hanwha, sabic, other).
C26_PipelineOutputChartable ==
    PipelineOutputCharted => err.kind # "MissingColumns"

\* C27: in each demand-chart renderer no check after the required-column
\* check and the customer check fails (no supplier-columns error, no
\* empty-selection error, no zero-years error), so that missing columns and
\* customer not found are the only validation errors, and no position of a
\* series is filled by the zero substitute for a year without a row.
C27_LaterChecksNeverFail ==
    Rendered =>
        /\ err.kind \notin {"SuppliersNotFound", "NoData"}
        /\ Drawn => out.substituted = {}

\* C28: whenever a renderer draws at least one thin outline demand bar for a
\* year of 2022-2024, the legend holds exactly one entry 'Demand (2022-2024)',
\* whichever of these years have a bar and whatever the first year of the
\* customer is.
C28_OneDemandLegendEntry ==
    (Drawn /\ out.outline # {}) => out.legend_demand = 1

\* the chart 'Account price vs Volume' shown to the user, with prices on it
AccountPriceShown ==
    /\ pc = "shown"
    /\ args.chart_type = "Account price vs Volume"
    /\ all_price_values(out.prices) # {}

\* the rows of the selected customer
SelectedRows == SelectSeq(df.rows, LAMBDA r : r["customer"] = trace[2])

\* C29: on the path 'Account price vs Volume' of the applications, the price
\* axis runs from 0.5 to 1.5 times the largest pocket price of the selected
\* customer and the demand axis from 0 to twice the customer's largest demand;
\* every plotted price that is not missing (pocket price, apac_pp, and seap_pp
\* for MDI) lies within the price limits, and every stack total within the
\* demand limits.
C29_SeriesWithinAppLimits ==
    AccountPriceShown =>
        /\ out.price_ylim = <<5 * 50, 5 * ((15 * SeriesMax(SelectedRows, "pocket price")) \div 10)>>
        /\ out.ylim = <<0, 10 * 2 * SeriesMax(SelectedRows, "demand")>>
        /\ \A v \in all_price_values(out.prices) :
              out.price_ylim[1] <= 5 * v /\ 5 * v <= out.price_ylim[2]
        /\ \A i \in DOMAIN out.top : 0 <= 10 * out.top[i] /\ 10 * out.top[i] <= out.ylim[2]

\* a sales file with every column, dates in DD.MM.YYYY and volumes written
\* with a decimal comma, none of whose customer names is a key of the mapping
UnmappedSalesFile ==
    /\ InPipeline /\ pc # "render"
    /\ input.cols = RawColumns
    /\ IsTextColumn(input, "volume")
    /\ \A i \in DOMAIN input.rows :
          /\ MatchesDMY(input.rows[i]["date"])
          /\ IsNumber(replace_comma(input.rows[i]["volume"]))
          /\ ~IsMapped(input.rows[i])

\* C30: when no row of a well-formed sales file has a mapped customer name,
\* explore_data raises no error: the table is empty after the mapping,
\* aggregation and competitor analysis return it as it is, the quality summary
\* is not printed, and the empty table is what the caller receives.
C30_NoMappedCustomer ==
    UnmappedSalesFile =>
        /\ err = NoError /\ pc # "error"
        /\ pc \in {"aggregate_customer_data", "add_competitor_analysis",
                   "validate_data_quality", "done"} => IsEmpty(df)
        /\ pc \in {"add_competitor_analysis", "validate_data_quality", "done"} => df = prev
        /\ "validate_data_quality" \notin Range(trace)
        /\ pc = "done" => trace[Len(trace)] = "warning_no_data"

\* C30 witness: explore_data has returned on a file of two rows of an unmapped
\* customer
C30_Witness ==
    /\ UnmappedSalesFile
    /\ Len(input.rows) = 2
    /\ pc = "done"
    /\ Len(trace) = 7
    /\ IsEmpty(df)
    /\ HasCol(df, "tdi_customer") /\ ~HasCol(df, "demand")

====
